---- MODULE Spec2Model ----
(***************************************************************************)
(* Model of the minimal WebSocket implementation: the frame codec, the     *)
(* server handshake, the multi-client chat server (websocket_server.cc)    *)
(* and the file monitor (realtime_file_monitor.cc).                        *)
(*                                                                         *)
(* Strings and buffers are sequences of byte values 0..255.  Positions in  *)
(* the C++ code are 0-based; At(s, i) reads the byte at 0-based index i.   *)
(***************************************************************************)
EXTENDS Integers, Sequences, FiniteSets, TLC

(* ------------------------------ bounds -------------------------------- *)
\* Number of events of one run that leave a trace: connections the
\* listening socket hands out plus broadcasts (operator lines, relayed chat
\* messages, file changes).
MaxEvents == 4

(* ------------------------- byte-string helpers ------------------------ *)
npos == -1

At(s, i) == s[i + 1]

\* std::string::substr(pos): the bytes from 0-based pos to the end.
SubstrFrom(s, pos) == SubSeq(s, pos + 1, Len(s))

\* std::string::substr(pos, count): count is clamped to the end.
Substr(s, pos, count) ==
  SubSeq(s, pos + 1, IF pos + count > Len(s) THEN Len(s) ELSE pos + count)

\* TRUE iff sub occurs in s at 0-based index i.
MatchAt(s, sub, i) ==
  /\ i + Len(sub) <= Len(s)
  /\ \A k \in 1..Len(sub) : s[i + k] = sub[k]

\* std::string::find(sub, from): lowest index >= from, or npos.
Find(s, sub, from) ==
  LET hits == {i \in from..Len(s) : MatchAt(s, sub, i)}
  IN IF hits = {} THEN npos
     ELSE CHOOSE i \in hits : \A j \in hits : i <= j

\* std::string::find_first_not_of(chars)
FindFirstNotOf(s, chars) ==
  LET hits == {i \in 0..(Len(s) - 1) : At(s, i) \notin chars}
  IN IF hits = {} THEN npos
     ELSE CHOOSE i \in hits : \A j \in hits : i <= j

\* std::string::find_last_not_of(chars)
FindLastNotOf(s, chars) ==
  LET hits == {i \in 0..(Len(s) - 1) : At(s, i) \notin chars}
  IN IF hits = {} THEN npos
     ELSE CHOOSE i \in hits : \A j \in hits : i >= j

\* std::getline over an istringstream: the lines of s, split at LF (10);
\* a trailing LF does not start another line.
RECURSIVE GetLines(_)
GetLines(s) ==
  IF s = <<>> THEN <<>>
  ELSE LET nl == Find(s, <<10>>, 0)
       IN IF nl = npos THEN <<s>>
          ELSE <<Substr(s, 0, nl)>> \o GetLines(SubstrFrom(s, nl + 1))

\* std::string(const char*): the bytes before the first NUL.
CStr(buffer) ==
  LET nul == Find(buffer, <<0>>, 0)
  IN IF nul = npos THEN buffer ELSE Substr(buffer, 0, nul)

(* ----------------------- uint32_t arithmetic --------------------------- *)
\* Bitwise operations on naturals below 2^16, bit by bit: bit k of the
\* result from bit k of a and of b, four bits at a time.
BitXor(a, b) ==
  LET x(k) == (((a \div (2 ^ k)) % 2) + ((b \div (2 ^ k)) % 2)) % 2
      n(k) == (x(k) + 2 * x(k + 1)) + (4 * x(k + 2) + 8 * x(k + 3))
  IN (n(0) + 16 * n(4)) + 256 * (n(8) + 16 * n(12))

BitAnd(a, b) ==
  LET x(k) == ((a \div (2 ^ k)) % 2) * ((b \div (2 ^ k)) % 2)
      n(k) == (x(k) + 2 * x(k + 1)) + (4 * x(k + 2) + 8 * x(k + 3))
  IN (n(0) + 16 * n(4)) + 256 * (n(8) + 16 * n(12))

BitOr(a, b) ==
  LET x(k) == IF (a \div (2 ^ k)) % 2 = 1 \/ (b \div (2 ^ k)) % 2 = 1
              THEN 1 ELSE 0
      n(k) == (x(k) + 2 * x(k + 1)) + (4 * x(k + 2) + 8 * x(k + 3))
  IN (n(0) + 16 * n(4)) + 256 * (n(8) + 16 * n(12))

\* A uint32_t is kept as <<hi, lo>>, its two 16-bit halves.
U32(hi, lo) == <<hi, lo>>

\* The uint32_t made of four bytes, most significant first.
U32OfBytes(b0, b1, b2, b3) == <<b0 * 256 + b1, b2 * 256 + b3>>

\* (x >> (j * 8)) & 0xFF for j = 3, 2, 1, 0.
BytesOfU32(x) == <<x[1] \div 256, x[1] % 256, x[2] \div 256, x[2] % 256>>

\* x + y in uint32_t arithmetic (modulo 2^32).
Add32(x, y) ==
  <<(x[1] + y[1] + ((x[2] + y[2]) \div 65536)) % 65536, (x[2] + y[2]) % 65536>>

\* v + w + x + y + z in uint32_t arithmetic (modulo 2^32).
Sum32(v, w, x, y, z) ==
  <<(v[1] + w[1] + x[1] + y[1] + z[1]
       + ((v[2] + w[2] + x[2] + y[2] + z[2]) \div 65536)) % 65536,
    (v[2] + w[2] + x[2] + y[2] + z[2]) % 65536>>

Xor32(x, y) == <<BitXor(x[1], y[1]), BitXor(x[2], y[2])>>

And32(x, y) == <<BitAnd(x[1], y[1]), BitAnd(x[2], y[2])>>

Or32(x, y) == <<BitOr(x[1], y[1]), BitOr(x[2], y[2])>>

Not32(x) == <<65535 - x[1], 65535 - x[2]>>

\* (x << n) | (x >> (32 - n)) for 0 < n < 32.
Rotl32(x, n) ==
  LET hi == IF n >= 16 THEN x[2] ELSE x[1]
      lo == IF n >= 16 THEN x[1] ELSE x[2]
      m  == IF n >= 16 THEN n - 16 ELSE n
  IN <<BitOr((hi * (2 ^ m)) % 65536, lo \div (2 ^ (16 - m))),
       BitOr((lo * (2 ^ m)) % 65536, hi \div (2 ^ (16 - m)))>>

(* --------------------------- util.h ----------------------------------- *)
\* The value a matching line yields; <<FALSE, _>> when the line is skipped.
\* "end - start + 1" is a size_t: when end < start - 1 it wraps to a huge
\* count, and substr then takes everything from start on.
HeaderLineValue(line, search) ==
  IF Find(line, search, 0) = npos THEN <<FALSE, <<>>>>
  ELSE LET pos == Find(line, <<58>>, 0)            \* ":"
       IN IF pos = npos THEN <<FALSE, <<>>>>
          ELSE LET value == SubstrFrom(line, pos + 1)
                   start == FindFirstNotOf(value, {32, 9})       \* " \t"
                   end   == FindLastNotOf(value, {32, 13, 10})   \* " \r\n"
               IN IF start # npos /\ end # npos
                  THEN <<TRUE,
                         IF end - start + 1 < 0 THEN SubstrFrom(value, start)
                         ELSE Substr(value, start, end - start + 1)>>
                  ELSE <<FALSE, <<>>>>

RECURSIVE ExtractFromLines(_, _)
ExtractFromLines(lines, search) ==
  IF lines = <<>> THEN <<>>
  ELSE LET r == HeaderLineValue(Head(lines), search)
       IN IF r[1] THEN r[2] ELSE ExtractFromLines(Tail(lines), search)

ExtractHTTPHeaderValue(headers, key) ==
  ExtractFromLines(GetLines(headers), key \o <<58>>)

\* The five initial hash words h0..h4.
SHA1InitialState ==
  <<U32(26437, 8961), U32(61389, 43913), U32(39098, 56574),
    U32(4146, 21622), U32(50130, 57840)>>

\* f and k of round i, for the working words b, c, d.
SHA1F(i, b, c, d) ==
  IF i < 20 THEN Or32(And32(b, c), And32(Not32(b), d))
  ELSE IF i < 40 THEN Xor32(Xor32(b, c), d)
  ELSE IF i < 60 THEN Or32(Or32(And32(b, c), And32(b, d)), And32(c, d))
  ELSE Xor32(Xor32(b, c), d)

SHA1K(i) ==
  IF i < 20 THEN U32(23170, 31129)          \* 0x5A827999
  ELSE IF i < 40 THEN U32(28377, 60321)     \* 0x6ED9EBA1
  ELSE IF i < 60 THEN U32(36635, 48348)     \* 0x8F1BBCDC
  ELSE U32(51810, 49622)                    \* 0xCA62C1D6

\* A variant of the zero padding that always adds at least one zero byte.
SHA1ZeroPadAtLeastOne(padded) ==
  LET n == CHOOSE n \in 1..64 : ((Len(padded) + n) * 8) % 512 = 448
  IN padded \o [k \in 1..n |-> 0]

\* The input followed by 0x80 and by zero bytes until the size in bits is
\* 448 modulo 512: the loop pushes the least number n of zero bytes that
\* makes its test fail.
SHA1ZeroPad(padded) ==
  LET n == CHOOSE n \in 0..63 : ((Len(padded) + n) * 8) % 512 = 448
  IN padded \o [k \in 1..n |-> 0]

\* (original_bit_len >> (i * 8)) & 0xFF for i = 7..0; original_bit_len is
\* a uint64_t, and below 2^31 for every string the programs can hold.
SHA1LengthBytes(original_bit_len) ==
  [k \in 1..8 |->
     IF k <= 4 THEN 0
     ELSE (original_bit_len \div (256 ^ (8 - k))) % 256]

\* The padded message.
SHA1Padded(input) ==
  SHA1ZeroPad(Append(input, 128)) \o SHA1LengthBytes(Len(input) * 8)

\* w[0..last-1] of one chunk (kept 1-based: w[i + 1]), from the words
\* w[0..Len(w)-1]: the iterations i = Len(w) .. last-1 of the loop, the
\* first half of them and then the rest.
RECURSIVE SHA1Schedule(_, _)
SHA1Schedule(w, last) ==
  IF Len(w) >= last THEN w
  ELSE IF Len(w) + 1 < last
  THEN SHA1Schedule(SHA1Schedule(w, (Len(w) + last) \div 2), last)
  ELSE LET i == Len(w)
           temp == Xor32(Xor32(Xor32(w[i - 3 + 1], w[i - 8 + 1]),
                               w[i - 14 + 1]), w[i - 16 + 1])
       IN Append(w, Rotl32(temp, 1))

SHA1Words(chunkData) ==
  SHA1Schedule([i \in 1..16 |->
                  U32OfBytes(chunkData[4 * i - 3], chunkData[4 * i - 2],
                             chunkData[4 * i - 1], chunkData[4 * i])], 80)

\* The rounds s.i .. last-1, the first half of them and then the rest;
\* s holds i and the working words.
RECURSIVE SHA1Rounds(_, _, _)
SHA1Rounds(s, w, last) ==
  IF s.i >= last THEN s
  ELSE IF s.i + 1 < last
  THEN SHA1Rounds(SHA1Rounds(s, w, (s.i + last) \div 2), w, last)
  ELSE [i |-> s.i + 1,
        a |-> Sum32(Rotl32(s.a, 5), SHA1F(s.i, s.b, s.c, s.d), s.e,
                    SHA1K(s.i), w[s.i + 1]),
        b |-> s.a,
        c |-> Rotl32(s.b, 30),
        d |-> s.c,
        e |-> s.d]

\* h0 += a; ...; h4 += e.
SHA1Sum(h, s) ==
  <<Add32(h[1], s.a), Add32(h[2], s.b), Add32(h[3], s.c), Add32(h[4], s.d),
    Add32(h[5], s.e)>>

\* The main loop over the 80 words of w, and the sums after it.
SHA1MainLoop(h, w) ==
  SHA1Sum(h, SHA1Rounds([i |-> 0, a |-> h[1], b |-> h[2], c |-> h[3],
                         d |-> h[4], e |-> h[5]], w, Len(w)))

\* One chunk: h0..h4 after it.
SHA1Chunk(h, chunkData) == SHA1MainLoop(h, SHA1Words(chunkData))

RECURSIVE SHA1Chunks(_, _, _)
SHA1Chunks(h, padded, chunk) ==
  IF chunk >= (Len(padded) * 8) \div 512 THEN h
  ELSE SHA1Chunks(SHA1Chunk(h, Substr(padded, chunk * 64, 64)), padded,
                  chunk + 1)

\* The 20 bytes of h0..h4, most significant first.
SHA1Bytes(h) ==
  BytesOfU32(h[1]) \o BytesOfU32(h[2]) \o BytesOfU32(h[3])
    \o BytesOfU32(h[4]) \o BytesOfU32(h[5])

\* ComputeSHA1Hash(input)
ComputeSHA1Hash(input) ==
  SHA1Bytes(SHA1Chunks(SHA1InitialState, SHA1Padded(input), 0))

base64_chars ==
  <<65, 66, 67, 68, 69, 70, 71, 72, 73, 74, 75, 76, 77, 78, 79, 80, 81, 82,
    83, 84, 85, 86, 87, 88, 89, 90, 97, 98, 99, 100, 101, 102, 103, 104,
    105, 106, 107, 108, 109, 110, 111, 112, 113, 114, 115, 116, 117, 118,
    119, 120, 121, 122, 48, 49, 50, 51, 52, 53, 54, 55, 56, 57, 43, 47>>

\* The four 6-bit values of three bytes.
Base64Quad(c) ==
  <<c[1] \div 4,                          \* (c0 & 0xfc) >> 2
    (c[1] % 4) * 16 + (c[2] \div 16),     \* ((c0 & 0x03) << 4) + ((c1 & 0xf0) >> 4)
    (c[2] % 16) * 4 + (c[3] \div 64),     \* ((c1 & 0x0f) << 2) + ((c2 & 0xc0) >> 6)
    c[3] % 64>>                           \* c2 & 0x3f

\* A variant of EncodeBase64 that ends every incomplete group with one "=".
EncodeBase64OnePad(input) ==
  LET full == Len(input) \div 3
      i == Len(input) % 3
      body == [k \in 1..(4 * full) |->
                 base64_chars[
                   Base64Quad(Substr(input, 3 * ((k - 1) \div 4), 3))
                     [((k - 1) % 4) + 1] + 1]]
      last == Base64Quad(SubstrFrom(input, 3 * full) \o <<0, 0>>)
      tail == IF i = 0 THEN <<>>
              ELSE [j \in 1..(i + 1) |-> base64_chars[last[j] + 1]] \o <<61>>
  IN body \o tail

\* EncodeBase64(input): four characters for every three bytes; a last
\* group of i < 3 bytes is filled with zero bytes and yields i + 1
\* characters and 3 - i "=".
EncodeBase64(input) ==
  LET full == Len(input) \div 3
      i == Len(input) % 3
      body == [k \in 1..(4 * full) |->
                 base64_chars[
                   Base64Quad(Substr(input, 3 * ((k - 1) \div 4), 3))
                     [((k - 1) % 4) + 1] + 1]]
      last == Base64Quad(SubstrFrom(input, 3 * full) \o <<0, 0>>)
      tail == IF i = 0 THEN <<>>
              ELSE [j \in 1..(i + 1) |-> base64_chars[last[j] + 1]]
                   \o [j \in 1..(3 - i) |-> 61]
  IN body \o tail

(* --------------------------- core.h ----------------------------------- *)
CONTINUATION == 0
TEXT == 1
BINARY == 2
CLOSE == 8
PING == 9
PONG == 10

\* A variant of BuildWSFrame that writes the 16-bit length low byte first.
BuildWSFrameLowFirst(message, opcode) ==
  LET len == Len(message)
      lenField == IF len < 126 THEN <<len>>
                  ELSE IF len <= 65535
                       THEN <<126, len % 256, (len \div 256) % 256>>
                       ELSE <<>>
  IN <<128 + opcode>> \o lenField \o message

\* A variant of BuildWSFrame whose first range test is "len <= 126".
BuildWSFrameDirect126(message, opcode) ==
  LET len == Len(message)
      lenField == IF len <= 126 THEN <<len>>
                  ELSE IF len <= 65535
                       THEN <<126, (len \div 256) % 256, len % 256>>
                       ELSE <<>>
  IN <<128 + opcode>> \o lenField \o message

\* BuildWSFrame(message, opcode): 0x80 | opcode (opcode < 16, so the OR is
\* a sum), the length field, the payload.  A message longer than 0xFFFF
\* gets no length field at all.
BuildWSFrame(message, opcode) ==
  LET len == Len(message)
      lenField == IF len < 126 THEN <<len>>
                  ELSE IF len <= 65535
                       THEN <<126, (len \div 256) % 256, len % 256>>
                       ELSE <<>>
  IN <<128 + opcode>> \o lenField \o message

\* ParseWSFrame with one slip, named by v:
\*   "key":      the mask key byte used is mask_key[(i + 1) % 4];
\*   "code127":  length code 127 is taken as a length of 127 bytes;
\*   "truncate": an incomplete unmasked frame yields the bytes present;
\*   "rest":     an unmasked frame yields every byte after its header.
ParseWSFrameVariant(buffer, v) ==
  IF Len(buffer) < 2 THEN <<>>
  ELSE
    LET byte2 == At(buffer, 1)
        mask == byte2 >= 128
        code == byte2 % 128
    IN IF code = 126 /\ Len(buffer) < 4 THEN <<>>
       ELSE IF code = 127 /\ v # "code127" THEN <<>>
       ELSE
         LET payload_len == IF code = 126
                            THEN At(buffer, 2) * 256 + At(buffer, 3)
                            ELSE code
             pos == IF code = 126 THEN 4 ELSE 2
             shift == IF v = "key" THEN 1 ELSE 0
         IN IF mask
            THEN IF Len(buffer) < pos + 4 + payload_len THEN <<>>
                 ELSE [i \in 1..payload_len |->
                         BitXor(At(buffer, pos + 4 + (i - 1)),
                                At(buffer, pos + ((i - 1 + shift) % 4)))]
            ELSE IF Len(buffer) < pos + payload_len
                 THEN IF v = "truncate" THEN SubstrFrom(buffer, pos) ELSE <<>>
                 ELSE IF v = "rest" THEN SubstrFrom(buffer, pos)
                 ELSE [i \in 1..payload_len |-> At(buffer, pos + (i - 1))]

ParseWSFrameKeyOff(buffer) == ParseWSFrameVariant(buffer, "key")

ParseWSFrame127AsLength(buffer) == ParseWSFrameVariant(buffer, "code127")

ParseWSFrameTruncating(buffer) == ParseWSFrameVariant(buffer, "truncate")

ParseWSFrameToEnd(buffer) == ParseWSFrameVariant(buffer, "rest")

\* A variant of ParseWSFrame that yields nothing for a control frame
\* (opcode 8 and above: CLOSE, PING, PONG).
ParseWSFrameDataOnly(buffer) ==
  IF Len(buffer) >= 1 /\ At(buffer, 0) % 16 >= 8 THEN <<>>
  ELSE ParseWSFrameVariant(buffer, "none")

\* ParseWSFrame(buffer): the decoded payload, or the empty string.
ParseWSFrame(buffer) ==
  IF Len(buffer) < 2 THEN <<>>
  ELSE
    LET byte2 == At(buffer, 1)
        mask == byte2 >= 128                 \* byte2 & 0x80
        code == byte2 % 128                  \* byte2 & 0x7F
    IN IF code = 126 /\ Len(buffer) < 4 THEN <<>>
       ELSE IF code = 127 THEN <<>>
       ELSE
         LET payload_len == IF code = 126
                            THEN At(buffer, 2) * 256 + At(buffer, 3)
                            ELSE code
             pos == IF code = 126 THEN 4 ELSE 2
         IN IF mask
            THEN IF Len(buffer) < pos + 4 + payload_len THEN <<>>
                 ELSE [i \in 1..payload_len |->
                         BitXor(At(buffer, pos + 4 + (i - 1)),
                                At(buffer, pos + ((i - 1) % 4)))]
            ELSE IF Len(buffer) < pos + payload_len THEN <<>>
                 ELSE [i \in 1..payload_len |-> At(buffer, pos + (i - 1))]

\* The 0-based indices of buffer that ParseWSFrame reads (buffer[...]).
ParseWSFrameReads(buffer) ==
  IF Len(buffer) < 2 THEN {}
  ELSE
    LET byte2 == At(buffer, 1)
        mask == byte2 >= 128
        code == byte2 % 128
    IN {1} \cup
       IF code = 126 /\ Len(buffer) < 4 THEN {}
       ELSE IF code = 127 THEN {}
       ELSE
         LET payload_len == IF code = 126
                            THEN At(buffer, 2) * 256 + At(buffer, 3)
                            ELSE code
             pos == IF code = 126 THEN 4 ELSE 2
         IN (IF code = 126 THEN {2, 3} ELSE {}) \cup
            IF mask
            THEN IF Len(buffer) < pos + 4 + payload_len THEN {}
                 ELSE pos..(pos + 4 + payload_len - 1)
            ELSE IF Len(buffer) < pos + payload_len THEN {}
                 ELSE pos..(pos + payload_len - 1)


(* ----------------- websocket_server.cc: pure parts --------------------- *)
SecWebSocketKey ==                                  \* "Sec-WebSocket-Key"
  <<83, 101, 99, 45, 87, 101, 98, 83, 111, 99, 107, 101, 116, 45, 75, 101, 121>>

\* DoHandshake, given what its single recv returned (<<>> stands for a
\* return value <= 0): whether it succeeds and the key it answers.
DoHandshake(buffer) ==
  IF Len(buffer) <= 0 THEN [ok |-> FALSE, key |-> <<>>]
  ELSE LET websocket_key ==
             ExtractHTTPHeaderValue(CStr(buffer), SecWebSocketKey)
       IN IF websocket_key = <<>> THEN [ok |-> FALSE, key |-> <<>>]
          ELSE [ok |-> TRUE, key |-> websocket_key]

\* "258EAFA5-E914-47DA-95CA-C5AB0DC85B11"
magic_guid ==
  <<50, 53, 56, 69, 65, 70, 65, 53, 45, 69, 57, 49, 52, 45, 52, 55, 68, 65,
    45, 57, 53, 67, 65, 45, 67, 53, 65, 66, 48, 68, 67, 56, 53, 66, 49, 49>>

\* A variant of the accept key that leaves the GUID out.
AcceptKeyNoGuid(websocket_key) ==
  EncodeBase64(ComputeSHA1Hash(websocket_key))

\* The accept key of DoHandshake (lines 42-45).
AcceptKey(websocket_key) ==
  EncodeBase64(ComputeSHA1Hash(websocket_key \o magic_guid))

\* "HTTP/1.1 101 Switching Protocols\r\nUpgrade: websocket\r\nConnection: Upgrade\r\nSec-WebSocket-Accept: "
ResponseHead ==
  <<72, 84, 84, 80, 47, 49, 46, 49, 32, 49, 48, 49, 32, 83, 119, 105, 116,
    99, 104, 105, 110, 103, 32, 80, 114, 111, 116, 111, 99, 111, 108, 115,
    13, 10, 85, 112, 103, 114, 97, 100, 101, 58, 32, 119, 101, 98, 115, 111,
    99, 107, 101, 116, 13, 10, 67, 111, 110, 110, 101, 99, 116, 105, 111,
    110, 58, 32, 85, 112, 103, 114, 97, 100, 101, 13, 10, 83, 101, 99, 45,
    87, 101, 98, 83, 111, 99, 107, 101, 116, 45, 65, 99, 99, 101, 112, 116,
    58, 32>>

\* The response DoHandshake prepares for a key (lines 48-53).
HandshakeResponse(websocket_key) ==
  ResponseHead \o AcceptKey(websocket_key) \o <<13, 10, 13, 10>>

\* A variant of DoHandshake that answers whatever it received.
DoHandshakeSendsAlways(buffer) ==
  <<HandshakeResponse(DoHandshake(buffer).key)>>

\* The buffers DoHandshake hands to send(), in order.
DoHandshakeSends(buffer) ==
  IF DoHandshake(buffer).ok
  THEN <<HandshakeResponse(DoHandshake(buffer).key)>>
  ELSE <<>>

\* "[Server] " + input
ServerMessage(input) == <<91, 83, 101, 114, 118, 101, 114, 93, 32>> \o input

\* "/quit"
QuitCommand == <<47, 113, 117, 105, 116>>

\* The chat payload check and split (lines 175-192).  nameLen is a uint32_t
\* read big-endian from the first four bytes; it is kept as two 16-bit
\* halves hi:lo.  "4 + nameLen" is computed in 32-bit unsigned arithmetic,
\* so it wraps modulo 2^32 before it is compared with payload.size() and
\* before it is used as the start of the chat text.
ChatRelay(payload) ==
  IF Len(payload) < 4 THEN [ok |-> FALSE, fullMsg |-> <<>>]
  ELSE
    LET hi == At(payload, 0) * 256 + At(payload, 1)
        lo == At(payload, 2) * 256 + At(payload, 3)
        lo4 == (lo + 4) % 65536
        hi4 == (hi + ((lo + 4) \div 65536)) % 65536
    IN IF hi4 > 0 \/ Len(payload) < lo4
       THEN [ok |-> FALSE, fullMsg |-> <<>>]
       ELSE
         LET username == IF hi > 0 THEN SubstrFrom(payload, 4)
                         ELSE Substr(payload, 4, lo)
             chatMsg == SubstrFrom(payload, lo4)
         IN [ok |-> TRUE,
             fullMsg |-> <<91>> \o username \o <<93, 32>> \o chatMsg]

(* ------------- realtime_file_monitor.cc: pure parts -------------------- *)
\* A variant of SendWsMessage whose range test is "len <= 126".
SendWsMessageDirect126(data) ==
  LET len == Len(data)
      header == IF len <= 126 THEN <<129, len>>
                ELSE <<129, 126, ((len % 65536) \div 256), len % 256>>
  IN <<header, data>>

\* SendWsMessage: the two buffers it hands to send(), header then data.
\* The 16-bit length is static_cast<uint16_t>(len), i.e. len modulo 65536.
SendWsMessage(data) ==
  LET len == Len(data)
      header == IF len <= 125 THEN <<129, len>>
                ELSE <<129, 126, ((len % 65536) \div 256), len % 256>>
  IN <<header, data>>

UpgradeWebsocket ==                                 \* "Upgrade: websocket"
  <<85, 112, 103, 114, 97, 100, 101, 58, 32, 119, 101, 98, 115, 111, 99, 107,
    101, 116>>

SecWebSocketKeyColon ==                             \* "Sec-WebSocket-Key: "
  <<83, 101, 99, 45, 87, 101, 98, 83, 111, 99, 107, 101, 116, 45, 75, 101, 121,
    58, 32>>

\* The request test of ProcessNewConnection (lines 246-257): whether the
\* connection is upgraded, and with which key.
UpgradeRequest(request) ==
  IF Find(request, UpgradeWebsocket, 0) = npos
  THEN [ok |-> FALSE, key |-> <<>>]
  ELSE LET p == Find(request, SecWebSocketKeyColon, 0)
       IN IF p = npos THEN [ok |-> FALSE, key |-> <<>>]
          ELSE LET pos == p + Len(SecWebSocketKeyColon)
                   end == Find(request, <<13>>, pos)
               IN IF end = npos THEN [ok |-> FALSE, key |-> <<>>]
                  ELSE [ok |-> TRUE, key |-> Substr(request, pos, end - pos)]


\* "258EAFA5-E914-47DA-95CA-C5AB0DC85B11"
WEBSOCKET_MAGIC ==
  <<50, 53, 56, 69, 65, 70, 65, 53, 45, 69, 57, 49, 52, 45, 52, 55, 68, 65,
    45, 57, 53, 67, 65, 45, 67, 53, 65, 66, 48, 68, 67, 56, 53, 66, 49, 49>>

\* w[0..79] of Sha1Transform (kept 1-based: w[i + 1]).
RECURSIVE Sha1W(_, _)
Sha1W(w, last) ==
  IF Len(w) >= last THEN w
  ELSE IF Len(w) + 1 < last
  THEN Sha1W(Sha1W(w, (Len(w) + last) \div 2), last)
  ELSE LET i == Len(w)
       IN Append(w,
            Rotl32(Xor32(Xor32(Xor32(w[i - 3 + 1], w[i - 8 + 1]),
                               w[i - 14 + 1]), w[i - 16 + 1]), 1))

\* temp of round i.
Sha1Temp(i, a, b, c, d, e, wi) ==
  IF i < 20
  THEN Sum32(Rotl32(a, 5), Or32(And32(b, c), And32(Not32(b), d)), e,
             U32(23170, 31129), wi)
  ELSE IF i < 40
  THEN Sum32(Rotl32(a, 5), Xor32(Xor32(b, c), d), e, U32(28377, 60321), wi)
  ELSE IF i < 60
  THEN Sum32(Rotl32(a, 5),
             Or32(Or32(And32(b, c), And32(b, d)), And32(c, d)), e,
             U32(36635, 48348), wi)
  ELSE Sum32(Rotl32(a, 5), Xor32(Xor32(b, c), d), e, U32(51810, 49622), wi)

\* The round loop of Sha1Transform, rounds s.i .. last-1: the first half
\* of them and then the rest.
RECURSIVE Sha1Loop(_, _, _)
Sha1Loop(s, w, last) ==
  IF s.i >= last THEN s
  ELSE IF s.i + 1 < last
  THEN Sha1Loop(Sha1Loop(s, w, (s.i + last) \div 2), w, last)
  ELSE [i |-> s.i + 1,
        a |-> Sha1Temp(s.i, s.a, s.b, s.c, s.d, s.e, w[s.i + 1]),
        b |-> s.a,
        c |-> Rotl32(s.b, 30),
        d |-> s.c,
        e |-> s.d]

\* state[0] += a; ...; state[4] += e.
Sha1Add(state, s) ==
  <<Add32(state[1], s.a), Add32(state[2], s.b), Add32(state[3], s.c),
    Add32(state[4], s.d), Add32(state[5], s.e)>>

\* The round loop over the 80 words of w, and the sums after it.
Sha1TransformWords(state, w) ==
  Sha1Add(state,
          Sha1Loop([i |-> 0, a |-> state[1], b |-> state[2], c |-> state[3],
                    d |-> state[4], e |-> state[5]], w, Len(w)))

\* Sha1Transform(state, buffer): the state after one 64-byte block.
Sha1Transform(state, buffer) ==
  Sha1TransformWords(state,
                     Sha1W([i \in 1..16 |->
                              U32OfBytes(buffer[4 * i - 3], buffer[4 * i - 2],
                                         buffer[4 * i - 1], buffer[4 * i])],
                           80))

\* Sha1Init: the context.  count[0] stays below 2^31 for every string the
\* monitor can hold (a request has at most 1023 bytes), so count[0] is kept
\* as a number and count[1] stays 0.  The buffer is not initialised by the
\* code; Sha1Transform reads it only after all 64 bytes have been written.
Sha1Init ==
  [state |-> <<U32(26437, 8961), U32(61389, 43913), U32(39098, 56574),
               U32(4146, 21622), U32(50130, 57840)>>,
   count |-> <<0, 0>>,
   buffer |-> [k \in 1..64 |-> 0]]

\* memcpy(&buffer[j], bytes, Len(bytes))
Memcpy(buffer, j, bytes) ==
  SubSeq(buffer, 1, j) \o bytes \o SubSeq(buffer, j + Len(bytes) + 1, Len(buffer))

\* The loop "for (i = part_len; i + 63 < len; i += 64)" of Sha1Update:
\* the state and i after it.
RECURSIVE Sha1Blocks(_, _, _)
Sha1Blocks(state, data, i) ==
  IF i + 63 < Len(data)
  THEN Sha1Blocks(Sha1Transform(state, Substr(data, i, 64)), data, i + 64)
  ELSE [state |-> state, i |-> i]

\* The branch "j + len > 63" of Sha1Update.
Sha1UpdateRest(r, data, count, buffer) ==
  [state |-> r.state, count |-> count,
   buffer |-> Memcpy(buffer, 0, SubstrFrom(data, r.i))]

Sha1UpdateFull(context, data, count, j) ==
  Sha1UpdateRest(
    Sha1Blocks(Sha1Transform(context.state,
                             Memcpy(context.buffer, j,
                                    Substr(data, 0, 64 - j))),
               data, 64 - j),
    data, count, Memcpy(context.buffer, j, Substr(data, 0, 64 - j)))

\* Sha1Update(context, data, len) with len = Len(data).
Sha1Update(context, data) ==
  LET len == Len(data)
      j == (context.count[1] \div 8) % 64
      count == <<context.count[1] + len * 8, context.count[2]>>
  IN IF j + len > 63
     THEN Sha1UpdateFull(context, data, count, j)
     ELSE [state |-> context.state, count |-> count,
           buffer |-> Memcpy(context.buffer, j, data)]

\* The zero bytes Sha1Final feeds until (count[0] & 504) = 448 (count[0]
\* is a multiple of 8, so this is count[0] % 512 = 448): at most
\* `most` iterations of the loop, the first half of them and then the rest.
\* The loop ends within 64 iterations.
RECURSIVE Sha1FinalPad(_, _)
Sha1FinalPad(context, most) ==
  IF context.count[1] % 512 = 448 \/ most = 0 THEN context
  ELSE IF most = 1 THEN Sha1Update(context, <<0>>)
  ELSE Sha1FinalPad(Sha1FinalPad(context, most \div 2), most - most \div 2)

\* final_count: count[1] then count[0], most significant byte first.
Sha1FinalCount(count) ==
  <<0, 0, 0, 0>> \o
  <<(count[1] \div 16777216) % 256, (count[1] \div 65536) % 256,
    (count[1] \div 256) % 256, count[1] % 256>>

\* The 20 digest bytes of a state.
Sha1Digest(state) ==
  BytesOfU32(state[1]) \o BytesOfU32(state[2]) \o BytesOfU32(state[3])
    \o BytesOfU32(state[4]) \o BytesOfU32(state[5])

\* Sha1Final(digest, context): the digest.
Sha1Final(context) ==
  Sha1Digest(
    Sha1Update(Sha1FinalPad(Sha1Update(context, <<128>>), 64),
               Sha1FinalCount(context.count)).state)

\* The first three 6-bit values of three bytes, and the fourth.
Base64Triple(c) ==
  <<c[1] \div 4,                               \* (c0 & 0xfc) >> 2
    BitOr((c[1] % 4) * 16, c[2] \div 16),      \* ((c0 & 0x03) << 4) | ((c1 & 0xf0) >> 4)
    BitOr((c[2] % 16) * 4, c[3] \div 64)>>     \* ((c1 & 0x0f) << 2) | ((c2 & 0xc0) >> 6)

\* Base64Encode(input, input_len) with input_len = Len(input).  For the
\* last group of i < 3 bytes char_array_4[3] is not computed, and only
\* char_array_4[0..i] are used.
Base64Encode(input) ==
  LET full == Len(input) \div 3
      i == Len(input) % 3
      body == [k \in 1..(4 * full) |->
                 base64_chars[
                   (Base64Triple(Substr(input, 3 * ((k - 1) \div 4), 3))
                      \o <<At(input, 3 * ((k - 1) \div 4) + 2) % 64>>)
                     [((k - 1) % 4) + 1] + 1]]
      last == Base64Triple(SubstrFrom(input, 3 * full) \o <<0, 0>>)
      tail == IF i = 0 THEN <<>>
              ELSE [j \in 1..(i + 1) |-> base64_chars[last[j] + 1]]
                   \o [j \in 1..(3 - i) |-> 61]
  IN body \o tail

\* HandleHandshake(sock, clientKey): the buffer it hands to send().  The
\* response is formatted into char response[256] and sent up to its first
\* NUL.
HandleHandshake(clientKey) ==
  CStr(Substr(ResponseHead
                \o Base64Encode(
                     Sha1Final(Sha1Update(Sha1Init,
                                          clientKey \o WEBSOCKET_MAGIC)))
                \o <<13, 10, 13, 10>>, 0, 255))

(* ---------------------- the client: DoHandshake ------------------------ *)
\* "dGhlIHNhbXBsZSBub25jZQ=="
sec_websocket_key ==
  <<100, 71, 104, 108, 73, 72, 78, 104, 98, 88, 66, 115, 90, 83, 66, 117,
    98, 50, 53, 106, 90, 81, 61, 61>>

\* "258EAFA5-E914-47DA-95CA-C5AB0DC85B11"
magicGUID ==
  <<50, 53, 56, 69, 65, 70, 65, 53, 45, 69, 57, 49, 52, 45, 52, 55, 68, 65,
    45, 57, 53, 67, 65, 45, 67, 53, 65, 66, 48, 68, 67, 56, 53, 66, 49, 49>>

\* "GET /chat HTTP/1.1\r\nHost: 127.0.0.1:8080\r\nUpgrade: websocket\r\nConnection: Upgrade\r\nSec-WebSocket-Key: dGhlIHNhbXBsZSBub25jZQ==\r\nSec-WebSocket-Version: 13\r\n\r\n"
HandshakeRequest ==
  <<71, 69, 84, 32, 47, 99, 104, 97, 116, 32, 72, 84, 84, 80, 47, 49, 46,
    49, 13, 10, 72, 111, 115, 116, 58, 32, 49, 50, 55, 46, 48, 46, 48, 46,
    49, 58, 56, 48, 56, 48, 13, 10, 85, 112, 103, 114, 97, 100, 101, 58, 32,
    119, 101, 98, 115, 111, 99, 107, 101, 116, 13, 10, 67, 111, 110, 110,
    101, 99, 116, 105, 111, 110, 58, 32, 85, 112, 103, 114, 97, 100, 101,
    13, 10, 83, 101, 99, 45, 87, 101, 98, 83, 111, 99, 107, 101, 116, 45,
    75, 101, 121, 58, 32, 100, 71, 104, 108, 73, 72, 78, 104, 98, 88, 66,
    115, 90, 83, 66, 117, 98, 50, 53, 106, 90, 81, 61, 61, 13, 10, 83, 101,
    99, 45, 87, 101, 98, 83, 111, 99, 107, 101, 116, 45, 86, 101, 114, 115,
    105, 111, 110, 58, 32, 49, 51, 13, 10, 13, 10>>

\* "Sec-WebSocket-Accept"
SecWebSocketAccept ==
  <<83, 101, 99, 45, 87, 101, 98, 83, 111, 99, 107, 101, 116, 45, 65, 99,
    99, 101, 112, 116>>

\* "101 Switching Protocols"
SwitchingProtocols ==
  <<49, 48, 49, 32, 83, 119, 105, 116, 99, 104, 105, 110, 103, 32, 80, 114,
    111, 116, 111, 99, 111, 108, 115>>

\* A variant of the client's DoHandshake that accepts every response with
\* the 101 status.
ClientDoHandshakeNoCompare(received) ==
  IF Len(received) <= 0 THEN FALSE
  ELSE Find(CStr(received), SwitchingProtocols, 0) # npos

\* The client's DoHandshake, given what its recv returned (<<>> stands for
\* a return value <= 0): whether it reports success.
ClientDoHandshake(received) ==
  IF Len(received) <= 0 THEN FALSE
  ELSE IF Find(CStr(received), SwitchingProtocols, 0) = npos THEN FALSE
  ELSE ExtractHTTPHeaderValue(CStr(received), SecWebSocketAccept)
         = EncodeBase64(ComputeSHA1Hash(sec_websocket_key \o magicGUID))

(* ======================= the running programs ========================== *)
VARIABLES
  program,         \* which executable runs: "chat" or "monitor"
  pc,              \* position of the main loop
  conns,           \* transport: one record per accepted connection
  wire,            \* transport: per connection, the buffers given to send()
  pending,         \* transport: a peer waits in the listen queue
  cin,             \* console: the line waiting on standard input, if any
  msgSeq,          \* number of broadcasts made so far
  client_sockets,  \* chat server: the registry (std::vector<int>)
  read_fds,        \* chat server: the fd_set select() returned
  new_client,      \* chat server: result of accept()
  it,              \* position of the sweep iterator (both programs)
  Clients,         \* file monitor: the registry (std::list<int>)
  fds,             \* file monitor: the fd_set select() returned
  client_fd,       \* file monitor: result of accept()
  watch,           \* file monitor: an inotify event is waiting
  disk,            \* file monitor: the watched file's bytes; <<-1>> if unreadable
  FileContent,     \* file monitor: the global FileContent
  arg,             \* a function studied on its own: its argument
  res              \* a function studied on its own: what it returned

vars == <<program, pc, conns, wire, pending, cin, msgSeq, client_sockets,
          read_fds, new_client, it, Clients, fds, client_fd, watch, disk,
          FileContent, arg, res>>

chatVars == <<client_sockets, read_fds, new_client>>
fnVars == <<arg, res>>
monVars == <<Clients, fds, client_fd, watch, disk, FileContent>>

server_fd == 3
STDIN_FILENO == 0
inotify_fd == 4

(* --------------------------- the transport ----------------------------- *)
\* A connection record: fd is the handle accept() returned; inq is what the
\* peer has sent and the server has not yet received (<<>>: nothing); gone
\* is TRUE once the peer has disconnected; hs is the outcome of the
\* handshake step ("none" before it); closes counts the close() calls made
\* on the handle while it referred to this connection.
ConnIds == 1..Len(conns)

\* The connection a handle value refers to: the latest one that was given it.
Owner(cs, fd) ==
  LET having == {c \in 1..Len(cs) : cs[c].fd = fd}
  IN IF having = {} THEN 0
     ELSE CHOOSE c \in having : \A d \in having : d <= c

IsOpen(cs, fd) == Owner(cs, fd) # 0 /\ cs[Owner(cs, fd)].closes = 0

\* accept() returns the lowest handle value not in use.
LowestFree(cs, base) ==
  LET used == {cs[c].fd : c \in {d \in 1..Len(cs) : cs[d].closes = 0}}
  IN CHOOSE f \in base..(base + Len(cs)) :
       f \notin used /\ \A g \in base..(f - 1) : g \in used

\* recv() on fd would return now (data, or <= 0 because the peer is gone).
Readable(cs, fd) ==
  Owner(cs, fd) # 0 /\ (cs[Owner(cs, fd)].inq # <<>> \/ cs[Owner(cs, fd)].gone)

\* The "world" w = [conns, wire] after send(fd, bytes): the buffer is queued
\* on the connection fd refers to; a send on a closed handle queues nothing.
Send(w, fd, entry) ==
  IF IsOpen(w.conns, fd)
  THEN [w EXCEPT !.wire[Owner(w.conns, fd)] = Append(@, entry)]
  ELSE w

\* The world after close(fd).
Close(w, fd) ==
  IF Owner(w.conns, fd) = 0 THEN w
  ELSE [w EXCEPT !.conns[Owner(w.conns, fd)].closes = @ + 1]

\* The world after recv(fd) took the waiting bytes.
Drain(w, fd) == [w EXCEPT !.conns[Owner(w.conns, fd)].inq = <<>>]

SetHs(w, fd, h) == [w EXCEPT !.conns[Owner(w.conns, fd)].hs = h]

\* A variant of AfterErase for a loop that also advances after erasing.
AfterEraseAdvance(i) == i + 1

\* lines 165-166: erase() returns the iterator to the entry that followed
\* the removed one; it now has the removed one's position, and "continue"
\* leaves it there.
AfterErase(i) == i

\* Variants of Erase: one that removes nothing, one that removes the entry
\* and everything after it (erase(it, end())).
EraseNothing(reg, i) == reg

EraseToEnd(reg, i) == SubSeq(reg, 1, i)

\* vector::erase(it) / list::erase(it) at 0-based position i.
Erase(reg, i) == SubSeq(reg, 1, i) \o SubSeq(reg, i + 2, Len(reg))

World == [conns |-> conns, wire |-> wire]

\* A buffer handed to send(): id is the number of the broadcast it belongs
\* to (0 for handshake and page responses); kind is "frame" for WebSocket
\* frame bytes, "101" for the handshake response (bytes: the key whose accept
\* value it carries), "html" for the page (bytes: the file content shown).
Entry(id, kind, bytes) == [id |-> id, kind |-> kind, bytes |-> bytes]

(* ----------------------- inputs of the model --------------------------- *)
Requests == {
  \* "Upgrade: websocket\r\nSec-WebSocket-Key: k\r\n\r\n"
  <<85, 112, 103, 114, 97, 100, 101, 58, 32, 119, 101, 98, 115, 111, 99, 107,
    101, 116, 13, 10, 83, 101, 99, 45, 87, 101, 98, 83, 111, 99, 107, 101, 116,
    45, 75, 101, 121, 58, 32, 107, 13, 10, 13, 10>>,
  \* "Sec-WebSocket-Key: k\r\n"
  <<83, 101, 99, 45, 87, 101, 98, 83, 111, 99, 107, 101, 116, 45, 75, 101, 121,
    58, 32, 107, 13, 10>>,
  \* "GET /\r\n\r\n"
  <<71, 69, 84, 32, 47, 13, 10, 13, 10>> }

\* Two frames that one recv returns together: a PING frame and a TEXT
\* frame, name "a", texts "i" and "j".
TwoFrames ==
  <<137, 6, 0, 0, 0, 1, 97, 105>> \o <<129, 6, 0, 0, 0, 1, 97, 106>>

RecvBuffers == {
  <<129, 6, 0, 0, 0, 1, 97, 104>>,              \* name "a", text "h"
  <<129, 133, 1, 2, 3, 4, 1, 2, 3, 4, 120>>,    \* masked: name "", text "y"
  <<129, 2, 104, 105>>,                         \* payload of 2 bytes
  <<129, 5, 0, 0, 0, 5, 97>>,                   \* name length 5, 1 byte left
  <<129, 5, 255, 255, 255, 255, 120>>,          \* name length 2^32 - 1
  <<129, 127>>,                                 \* 64-bit length code
  TwoFrames }

ConsoleLines == { QuitCommand, <<104, 105>> }   \* "/quit", "hi"

FileContents == { <<>>, <<102>> }

(* ------------------------------ Init ----------------------------------- *)
Init ==
  /\ program \in {"chat", "monitor"}
  /\ pc = "select"
  /\ conns = <<>>
  /\ wire = <<>>
  /\ pending = FALSE
  /\ cin = <<>>
  /\ msgSeq = 0
  /\ client_sockets = <<>>
  /\ read_fds = {}
  /\ new_client = -1
  /\ it = 0
  /\ Clients = <<>>
  /\ fds = {}
  /\ client_fd = -1
  /\ watch = FALSE
  /\ disk = <<>>
  /\ FileContent = <<>>
  /\ arg = <<>>
  /\ res = <<>>

(* --------------------------- the peers --------------------------------- *)
\* Events still allowed once everything already waiting is served.
Budget ==
  MaxEvents - Len(conns) - (IF pending THEN 1 ELSE 0)
    - msgSeq - Len(cin) - (IF watch THEN 1 ELSE 0)
    - Cardinality({c \in ConnIds : conns[c].hs = "ok" /\ conns[c].inq # <<>>})

\* The connection whose handshake request the server is waiting for.
Handshaking(c) ==
  /\ pc = "handshake"
  /\ conns[c].hs = "none"
  /\ conns[c].closes = 0

PeerConnects ==
  /\ pc = "select"
  /\ ~pending
  /\ Budget > 0
  /\ pending' = TRUE
  /\ UNCHANGED <<fnVars, program, pc, conns, wire, cin, msgSeq, it, chatVars, monVars>>

PeerSendsRequest ==
  /\ \E c \in ConnIds, r \in Requests :
       /\ Handshaking(c)
       /\ conns[c].inq = <<>> /\ ~conns[c].gone
       /\ conns' = [conns EXCEPT ![c].inq = r]
  /\ UNCHANGED <<fnVars, program, pc, wire, pending, cin, msgSeq, it, chatVars,
                 monVars>>

PeerSends ==
  /\ pc = "select"
  /\ \E c \in ConnIds :
       /\ conns[c].hs = "ok" /\ conns[c].closes = 0
       /\ conns[c].inq = <<>> /\ ~conns[c].gone
       /\ IF program = "chat"
          THEN /\ Budget > 0
               /\ \E b \in RecvBuffers : conns' = [conns EXCEPT ![c].inq = b]
          ELSE conns' = [conns EXCEPT ![c].inq = <<129, 0>>]
  /\ UNCHANGED <<fnVars, program, pc, wire, pending, cin, msgSeq, it, chatVars,
                 monVars>>

PeerLeaves ==
  /\ \E c \in ConnIds :
       /\ \/ pc = "select" /\ conns[c].hs = "ok" /\ conns[c].closes = 0
          \/ Handshaking(c) /\ conns[c].inq = <<>>
       /\ ~conns[c].gone
       /\ conns' = [conns EXCEPT ![c].gone = TRUE]
  /\ UNCHANGED <<fnVars, program, pc, wire, pending, cin, msgSeq, it, chatVars,
                 monVars>>

OperatorTypes ==
  /\ program = "chat"
  /\ pc = "select"
  /\ cin = <<>>
  /\ Budget > 0
  /\ \E line \in ConsoleLines : cin' = <<line>>
  /\ UNCHANGED <<fnVars, program, pc, conns, wire, pending, msgSeq, it, chatVars,
                 monVars>>


\* What std::cin holds when it is at end of input.
Eof == <<-1>>

\* The operator closes the console (end of input on stdin).
OperatorCloses ==
  /\ program = "chat"
  /\ pc = "select"
  /\ cin = <<>>
  /\ Budget > 0
  /\ cin' = <<Eof>>
  /\ UNCHANGED <<fnVars, program, pc, conns, wire, pending, msgSeq, it, chatVars,
                 monVars>>

(* -------------------- websocket_server.cc: main ------------------------ *)
RECURSIVE QuitLoopCloseFirst(_, _, _)
\* A variant of QuitLoop that closes each handle before it sends on it.
QuitLoopCloseFirst(w, reg, entry) ==
  IF reg = <<>> THEN w
  ELSE QuitLoopCloseFirst(Send(Close(w, Head(reg)), Head(reg), entry),
                          Tail(reg), entry)

RECURSIVE QuitLoop(_, _, _)
\* lines 136-141: for each client, send the close frame, then close().
QuitLoop(w, reg, entry) ==
  IF reg = <<>> THEN w
  ELSE QuitLoop(Close(Send(w, Head(reg), entry), Head(reg)), Tail(reg), entry)

RECURSIVE BroadcastLoopTwice(_, _, _)
\* A variant of BroadcastLoop that sends the frame twice to each client.
BroadcastLoopTwice(w, reg, entry) ==
  IF reg = <<>> THEN w
  ELSE BroadcastLoopTwice(Send(Send(w, Head(reg), entry), Head(reg), entry),
                          Tail(reg), entry)

RECURSIVE BroadcastLoop(_, _, _)
\* lines 150-153: send the frame to every client.
BroadcastLoop(w, reg, entry) ==
  IF reg = <<>> THEN w
  ELSE BroadcastLoop(Send(w, Head(reg), entry), Tail(reg), entry)

\* A variant of RelayTo without the comparison with the sender.
RelayToAll(dest_socket, client_socket) == TRUE

\* A variant of RelayTo for a server that relays to the clients it had when
\* select() returned: the client accepted in this turn of the loop is left out.
RelayToEarlier(dest_socket, client_socket) ==
  dest_socket # client_socket /\ dest_socket # new_client

\* line 200: the test that decides whether dest_socket gets the relay.
RelayTo(dest_socket, client_socket) == dest_socket # client_socket

RECURSIVE RelayLoop(_, _, _, _)
\* lines 199-203: send the frame to every client except the sender.
RelayLoop(w, reg, client_socket, entry) ==
  IF reg = <<>> THEN w
  ELSE RelayLoop(IF RelayTo(Head(reg), client_socket)
                 THEN Send(w, Head(reg), entry) ELSE w,
                 Tail(reg), client_socket, entry)

RECURSIVE CleanupLoop(_, _)
\* line 213: close every client left in the registry.
CleanupLoop(w, reg) ==
  IF reg = <<>> THEN w
  ELSE CleanupLoop(Close(w, Head(reg)), Tail(reg))

\* A variant of AfterHandshake that admits whatever the handshake returned.
AdmitAlways(reg, fd, ok) == Append(reg, fd)

\* lines 121-126: the registry after the handshake of new_client.
AfterHandshake(reg, fd, ok) == IF ok THEN Append(reg, fd) ELSE reg

ReadySet(reg, withStdin, withWatch) ==
  (IF pending THEN {server_fd} ELSE {})
    \cup (IF withStdin /\ cin # <<>> THEN {STDIN_FILENO} ELSE {})
    \cup (IF withWatch /\ watch THEN {inotify_fd} ELSE {})
    \cup {reg[i] : i \in {j \in 1..Len(reg) : Readable(conns, reg[j])}}

RECURSIVE NextReady(_, _, _)
\* The position, from i on, of the first handle for which FD_ISSET holds:
\* the loops pass the others by.  Len(reg) when there is none.
NextReady(reg, rfds, i) ==
  IF i >= Len(reg) THEN Len(reg)
  ELSE IF reg[i + 1] \in rfds THEN i
  ELSE NextReady(reg, rfds, i + 1)

\* Where the loop stands next once its iterator over reg is at i: at the
\* next ready client, or, past the last one, in select() again.
SweepFrom(reg, rfds, i) ==
  IF NextReady(reg, rfds, i) < Len(reg)
  THEN [pc |-> "sweep", it |-> NextReady(reg, rfds, i), fds |-> rfds]
  ELSE [pc |-> "select", it |-> 0, fds |-> {}]

\* line 131: the console is served if FD_ISSET(STDIN_FILENO), then the sweep.
ConsoleFrom(reg, rfds) ==
  IF STDIN_FILENO \in rfds THEN [pc |-> "stdin", it |-> 0, fds |-> rfds]
  ELSE SweepFrom(reg, rfds, 0)

\* line 115: accept() is called if FD_ISSET(server_fd), then the console.
AcceptFrom(reg, rfds) ==
  IF server_fd \in rfds THEN [pc |-> "accept", it |-> 0, fds |-> rfds]
  ELSE ConsoleFrom(reg, rfds)

\* lines 90-108: build read_fds and wait in select().  new_client belongs
\* to the turn of the loop that declares it: a new turn has none.
Select ==
  /\ program = "chat" /\ pc = "select"
  /\ ReadySet(client_sockets, TRUE, FALSE) # {}
  /\ \E at \in {AcceptFrom(client_sockets,
                            ReadySet(client_sockets, TRUE, FALSE))} :
       pc' = at.pc /\ it' = at.it /\ read_fds' = at.fds
  /\ new_client' = -1
  /\ UNCHANGED <<fnVars, program, conns, wire, pending, cin, msgSeq, client_sockets,
                 monVars>>

\* lines 109-112: select() returns a negative value; the loop is left.
SelectFails ==
  /\ program = "chat" /\ pc = "select"
  /\ pc' = "cleanup"
  /\ UNCHANGED <<fnVars, program, conns, wire, pending, cin, msgSeq, it, chatVars,
                 monVars>>

\* lines 115-117: accept(); a negative result skips the handshake.
Accept ==
  /\ program = "chat" /\ pc = "accept"
  /\ pending' = FALSE
  /\ \/ /\ \E at \in {ConsoleFrom(client_sockets, read_fds)} :
             pc' = at.pc /\ it' = at.it /\ read_fds' = at.fds
        /\ UNCHANGED <<conns, wire, new_client>>
     \/ /\ new_client' = LowestFree(conns, server_fd + 1)
        /\ conns' = Append(conns,
             [fd |-> LowestFree(conns, server_fd + 1), inq |-> <<>>,
              gone |-> FALSE, hs |-> "none", closes |-> 0])
        /\ wire' = Append(wire, <<>>)
        /\ pc' = "handshake"
        /\ UNCHANGED <<read_fds, it>>
  /\ UNCHANGED <<fnVars, program, cin, msgSeq, client_sockets, monVars>>

\* lines 118-126: DoHandshake and admission.  DoHandshake's recv waits
\* until the peer has sent something or has gone.
Handshake ==
  /\ program = "chat" /\ pc = "handshake"
  /\ Readable(conns, new_client)
  /\ \E r \in {DoHandshake(conns[Owner(conns, new_client)].inq)} :
     \E w1 \in {IF r.ok
                THEN SetHs(Send(Drain(World, new_client), new_client,
                                Entry(0, "101", r.key)),
                           new_client, "ok")
                ELSE SetHs(Close(Drain(World, new_client), new_client),
                           new_client, "failed")} :
     \E reg \in {AfterHandshake(client_sockets, new_client, r.ok)} :
     \E at \in {ConsoleFrom(reg, read_fds)} :
       /\ conns' = w1.conns
       /\ wire' = w1.wire
       /\ client_sockets' = reg
       /\ pc' = at.pc /\ it' = at.it /\ read_fds' = at.fds
  /\ UNCHANGED <<fnVars, program, pending, cin, msgSeq, new_client, monVars>>

\* line 133: std::getline(std::cin, input).  At end of input it extracts
\* nothing and input stays the empty string it was constructed as.
Getline(in) == IF in[1] = Eof THEN <<>> ELSE in[1]

\* std::cin after that getline: the line is consumed, the end stays.
AfterGetline(in) == IF in[1] = Eof THEN in ELSE Tail(in)

\* lines 131-155: one console line, "/quit" or a broadcast.
Console ==
  /\ program = "chat" /\ pc = "stdin"
  /\ cin[1] = Eof => msgSeq < MaxEvents
  /\ \E input \in {Getline(cin)}, id \in {msgSeq + 1} :
     \E w1 \in {IF input = QuitCommand
                THEN QuitLoop(World, client_sockets,
                       Entry(id, "frame", BuildWSFrame(<<>>, CLOSE)))
                ELSE BroadcastLoop(World, client_sockets,
                       Entry(id, "frame",
                             BuildWSFrame(ServerMessage(input), TEXT)))} :
     \E at \in {IF input = QuitCommand
                THEN [pc |-> "cleanup", it |-> 0, fds |-> read_fds]
                ELSE SweepFrom(client_sockets, read_fds, 0)} :
       /\ cin' = AfterGetline(cin)
       /\ msgSeq' = id
       /\ conns' = w1.conns
       /\ wire' = w1.wire
       /\ pc' = at.pc /\ it' = at.it /\ read_fds' = at.fds
  /\ UNCHANGED <<fnVars, program, pending, client_sockets, new_client, monVars>>

\* lines 158-209: one turn of the loop over client_sockets, for a client
\* with FD_ISSET(client_socket).
Sweep ==
  /\ program = "chat" /\ pc = "sweep"
  /\ \E client_socket \in {client_sockets[it + 1]} :
     \E c \in {Owner(conns, client_socket)} :
       /\ Readable(conns, client_socket)
       /\ IF conns[c].inq = <<>>
          THEN \* n <= 0: close and erase, the iterator stays
               \E reg \in {Erase(client_sockets, it)} :
               \E at \in {SweepFrom(reg, read_fds, AfterErase(it))} :
                 /\ conns' = Close(World, client_socket).conns
                 /\ client_sockets' = reg
                 /\ pc' = at.pc /\ it' = at.it /\ read_fds' = at.fds
                 /\ UNCHANGED <<wire, msgSeq>>
          ELSE
            \E payload \in {ParseWSFrame(conns[c].inq)} :
            \E m \in {ChatRelay(payload)} :
            \E relay \in {payload # <<>> /\ m.ok} :
            \E w1 \in {IF relay
                       THEN RelayLoop(Drain(World, client_socket),
                              client_sockets, client_socket,
                              Entry(msgSeq + 1, "frame",
                                    BuildWSFrame(m.fullMsg, TEXT)))
                       ELSE Drain(World, client_socket)} :
            \E at \in {SweepFrom(client_sockets, read_fds, it + 1)} :
              /\ conns' = w1.conns
              /\ wire' = w1.wire
              /\ msgSeq' = IF relay THEN msgSeq + 1 ELSE msgSeq
              /\ pc' = at.pc /\ it' = at.it /\ read_fds' = at.fds
              /\ UNCHANGED client_sockets
  /\ UNCHANGED <<fnVars, program, pending, cin, new_client, monVars>>

\* lines 212-215: close what is left and return.
Cleanup ==
  /\ program = "chat" /\ pc = "cleanup"
  /\ conns' = CleanupLoop(World, client_sockets).conns
  /\ pc' = "done"
  /\ UNCHANGED <<fnVars, program, wire, pending, cin, msgSeq, it, chatVars, monVars>>


(* ------------------ realtime_file_monitor.cc: main --------------------- *)
\* What the file holds when LoadFile cannot open it.
Unreadable == <<-1>>

\* The watched file is modified (or removed) on disk.
FileChanges ==
  /\ program = "monitor" /\ pc = "select"
  /\ ~watch
  /\ Budget > 0
  /\ watch' = TRUE
  /\ disk' \in FileContents \cup {Unreadable}
  /\ UNCHANGED <<fnVars, program, pc, conns, wire, pending, cin, msgSeq, it, chatVars,
                 Clients, fds, client_fd, FileContent>>

RECURSIVE BroadcastToClients(_, _, _, _)
\* lines 163-167: SendWsMessage to every client, header and data apart.
BroadcastToClients(w, reg, id, message) ==
  IF reg = <<>> THEN w
  ELSE BroadcastToClients(
         Send(Send(w, Head(reg), Entry(id, "frame", SendWsMessage(message)[1])),
              Head(reg), Entry(id, "frame", SendWsMessage(message)[2])),
         Tail(reg), id, message)

\* lines 172: AddClient after HandleHandshake, or the registry as it was.
AfterUpgrade(reg, fd, ok) == IF ok THEN Append(reg, fd) ELSE reg

\* line 458: ProcessNewConnection if FD_ISSET(server_fd), then the sweep.
MAcceptFrom(reg, rfds) ==
  IF server_fd \in rfds THEN [pc |-> "accept", it |-> 0, fds |-> rfds]
  ELSE SweepFrom(reg, rfds, 0)

\* line 447: the file event is served if FD_ISSET(inotify_fd), then accept.
MInotifyFrom(reg, rfds) ==
  IF inotify_fd \in rfds THEN [pc |-> "inotify", it |-> 0, fds |-> rfds]
  ELSE MAcceptFrom(reg, rfds)

\* lines 428-444: build fds and wait in select().  A negative return value
\* restarts the loop at the same place and changes nothing.
MSelect ==
  /\ program = "monitor" /\ pc = "select"
  /\ ReadySet(Clients, FALSE, TRUE) # {}
  /\ \E at \in {MInotifyFrom(Clients, ReadySet(Clients, FALSE, TRUE))} :
       pc' = at.pc /\ it' = at.it /\ fds' = at.fds
  /\ UNCHANGED <<fnVars, program, conns, wire, pending, cin, msgSeq, chatVars,
                 Clients, client_fd, watch, disk, FileContent>>

\* lines 447-455: a file change: reload and broadcast.
MFileEvent ==
  /\ program = "monitor" /\ pc = "inotify"
  /\ watch' = FALSE
  /\ msgSeq' = msgSeq + 1
  /\ IF disk = Unreadable
     THEN UNCHANGED <<conns, wire, FileContent>>
     ELSE /\ FileContent' = disk
          /\ \E w1 \in {BroadcastToClients(World, Clients, msgSeq + 1,
                                           disk)} :
               conns' = w1.conns /\ wire' = w1.wire
  /\ \E at \in {MAcceptFrom(Clients, fds)} :
       pc' = at.pc /\ it' = at.it /\ fds' = at.fds
  /\ UNCHANGED <<fnVars, program, pending, cin, chatVars, Clients, client_fd, disk>>

\* lines 229-234: accept() in ProcessNewConnection; a negative result
\* returns at once.
MAccept ==
  /\ program = "monitor" /\ pc = "accept"
  /\ pending' = FALSE
  /\ \/ /\ \E at \in {SweepFrom(Clients, fds, 0)} :
             pc' = at.pc /\ it' = at.it /\ fds' = at.fds
        /\ UNCHANGED <<conns, wire, client_fd>>
     \/ /\ client_fd' = LowestFree(conns, inotify_fd + 1)
        /\ conns' = Append(conns,
             [fd |-> LowestFree(conns, inotify_fd + 1), inq |-> <<>>,
              gone |-> FALSE, hs |-> "none", closes |-> 0])
        /\ wire' = Append(wire, <<>>)
        /\ pc' = "handshake"
        /\ UNCHANGED <<fds, it>>
  /\ UNCHANGED <<fnVars, program, cin, msgSeq, chatVars, Clients, watch, disk,
                 FileContent>>

\* lines 235-263: the rest of ProcessNewConnection.  Its recv waits until
\* the peer has sent something or has gone.
MHandshake ==
  /\ program = "monitor" /\ pc = "handshake"
  /\ Readable(conns, client_fd)
  /\ \E request \in {conns[Owner(conns, client_fd)].inq} :
     \E r \in {UpgradeRequest(request)} :
     \E w0 \in {Drain(World, client_fd)} :
     \E w1 \in {IF Len(request) <= 0
                THEN SetHs(Close(w0, client_fd), client_fd, "failed")
                ELSE IF r.ok
                THEN SetHs(Send(w0, client_fd, Entry(0, "101", r.key)),
                           client_fd, "ok")
                ELSE SetHs(Close(Send(w0, client_fd,
                                      Entry(0, "html", FileContent)),
                                 client_fd),
                           client_fd, "served")} :
     \E reg \in {AfterUpgrade(Clients, client_fd,
                              Len(request) > 0 /\ r.ok)} :
     \E at \in {SweepFrom(reg, fds, 0)} :
       /\ conns' = w1.conns
       /\ wire' = w1.wire
       /\ Clients' = reg
       /\ pc' = at.pc /\ it' = at.it /\ fds' = at.fds
  /\ client_fd' = -1             \* client_fd goes out of scope
  /\ UNCHANGED <<fnVars, program, pending, cin, msgSeq, chatVars, watch, disk,
                 FileContent>>

\* lines 269-282: one turn of the loop of ProcessClientMessages, for a
\* client with FD_ISSET(sock).
MSweep ==
  /\ program = "monitor" /\ pc = "sweep"
  /\ \E sock \in {Clients[it + 1]} :
     \E c \in {Owner(conns, sock)} :
       /\ Readable(conns, sock)
       /\ IF conns[c].inq = <<>>
          THEN \E reg \in {Erase(Clients, it)} :
               \E at \in {SweepFrom(reg, fds, it)} :
                 /\ conns' = Close(World, sock).conns
                 /\ Clients' = reg
                 /\ pc' = at.pc /\ it' = at.it /\ fds' = at.fds
          ELSE \E at \in {SweepFrom(Clients, fds, it + 1)} :
                 /\ conns' = Drain(World, sock).conns
                 /\ pc' = at.pc /\ it' = at.it /\ fds' = at.fds
                 /\ UNCHANGED Clients
  /\ UNCHANGED <<fnVars, program, wire, pending, cin, msgSeq, chatVars, client_fd,
                 watch, disk, FileContent>>

(* --------------------------- specification ----------------------------- *)
Next ==
  \/ PeerConnects
  \/ PeerSendsRequest
  \/ PeerSends
  \/ PeerLeaves
  \/ OperatorTypes
  \/ FileChanges
  \/ Select
  \/ SelectFails
  \/ Accept
  \/ Handshake
  \/ Console
  \/ Sweep
  \/ Cleanup
  \/ MSelect
  \/ MFileEvent
  \/ MAccept
  \/ MHandshake
  \/ MSweep

Spec == Init /\ [][Next]_vars

\* One step of the chat server's own code outside DoHandshake.  select()
\* failing (SelectFails) is no step the server can be relied on to take.
ServerStep == Select \/ Accept \/ Console \/ Sweep \/ Cleanup

\* DoHandshake's recv (line 25) can return: ENABLED <<Handshake>>_vars.
HandshakeReady ==
  /\ program = "chat" /\ pc = "handshake"
  /\ Readable(conns, new_client)

\* The servers under fair scheduling: a step of the server's code that
\* stays possible is taken (weak fairness of ServerStep and of Handshake,
\* the latter written out with HandshakeReady).  Nothing is assumed of the
\* peers and the operator.
SpecFair ==
  /\ Init /\ [][Next]_vars
  /\ WF_vars(ServerStep)
  /\ ([]<>~HandshakeReady) \/ ([]<><<Handshake>>_vars)

\* The servers with an operator who may also close the console.
NextEof == Next \/ OperatorCloses

SpecEof == Init /\ [][NextEof]_vars

TypeOK ==
  /\ program \in {"chat", "monitor"}
  /\ msgSeq \in 0..MaxEvents
  /\ Len(conns) + msgSeq <= MaxEvents
  /\ Len(wire) = Len(conns)


(* ====================== properties of the servers ====================== *)
\* The registry, the fd_set and the accepted handle of the running program.
Reg == IF program = "chat" THEN client_sockets ELSE Clients
ReadFds == IF program = "chat" THEN read_fds ELSE fds
NewFd == IF program = "chat" THEN new_client ELSE client_fd

\* Connection c is in registry reg: its handle is listed and refers to c.
InRegOf(reg, cs, c) ==
  \E i \in 1..Len(reg) : reg[i] = cs[c].fd /\ Owner(cs, reg[i]) = c

InReg(c) == InRegOf(Reg, conns, c)

\* How many registry entries refer to connection c.
CountInReg(c) ==
  Cardinality({i \in 1..Len(Reg) :
                 Reg[i] = conns[c].fd /\ Owner(conns, Reg[i]) = c})

\* The sweep is about to call recv on connection c ...
SweepAt(c) ==
  /\ pc = "sweep"
  /\ it < Len(Reg)
  /\ Reg[it + 1] = conns[c].fd
  /\ Owner(conns, Reg[it + 1]) = c
  /\ Reg[it + 1] \in ReadFds

\* ... and that recv returns 0 or a negative value.
RecvFails(c) == SweepAt(c) /\ conns[c].inq = <<>> /\ conns[c].gone

\* ... and that recv returns data.
RecvData(c) == SweepAt(c) /\ conns[c].inq # <<>>

\* The entries a step appended to the wire of connection c.
Sent(c) ==
  SubSeq(wire'[c], (IF c \in DOMAIN wire THEN Len(wire[c]) ELSE 0) + 1,
         Len(wire'[c]))

RECURSIVE Concat(_)
Concat(entries) ==
  IF entries = <<>> THEN <<>>
  ELSE Head(entries).bytes \o Concat(Tail(entries))

(* C1: every admitted connection's handle is closed exactly once: never   *)
(* twice, and once by the time the chat server has returned from main.    *)
C1_ClosedExactlyOnce ==
  \A c \in ConnIds :
    (program = "chat" /\ conns[c].hs = "ok") =>
      /\ conns[c].closes <= 1
      /\ (pc = "done" => conns[c].closes = 1)

(* C2: when recv on a registry connection returns <= 0, the same step     *)
(* removes the connection from the registry and closes its handle once,   *)
(* that close being the only one the handle ever got (both programs).     *)
C2_RecvFailureRemovesAndCloses ==
  [][\A c \in ConnIds :
       RecvFails(c) =>
         /\ ~InRegOf(Reg', conns', c)
         /\ conns[c].closes = 0
         /\ conns'[c].closes = 1]_vars

C2_Witness ==
  /\ program = "chat"
  /\ pc = "sweep"
  /\ \E c \in ConnIds :
       /\ conns[c].hs = "ok" /\ conns[c].gone
       /\ conns[c].closes = 1
       /\ ~InReg(c)

(* C3: a connection is in the registry iff its handshake has completed    *)
(* and its handle has not been closed.                                    *)
C3_RegistryIffOpen ==
  \A c \in ConnIds :
    InReg(c) <=> (conns[c].hs = "ok" /\ conns[c].closes = 0)

(* C4: the handshake step of the chat server appends the new handle to    *)
(* the registry exactly when DoHandshake succeeds and otherwise closes    *)
(* it; the file monitor serves the page to, closes and does not add a     *)
(* connection whose request lacks "Upgrade: websocket" or the key header; *)
(* no other step adds a handle to a registry.                             *)
UpgradeWithKey(request) ==
  /\ Find(request, UpgradeWebsocket, 0) # npos
  /\ Find(request, SecWebSocketKeyColon, 0) # npos

WellFormed(payload) ==
  /\ Len(payload) >= 4
  /\ At(payload, 0) = 0 /\ At(payload, 1) = 0
  /\ At(payload, 2) * 256 + At(payload, 3) <= Len(payload) - 4

RelayText(payload) ==
  LET nameLen == At(payload, 2) * 256 + At(payload, 3)
  IN <<91>> \o SubSeq(payload, 5, 4 + nameLen) \o <<93, 32>>
       \o SubSeq(payload, 5 + nameLen, Len(payload))

C5_RelayExcludesSender ==
  [][\A a \in ConnIds :
       (program = "chat" /\ RecvData(a)
          /\ WellFormed(ParseWSFrame(conns[a].inq))) =>
         \A c \in ConnIds :
           Sent(c) =
             IF c # a /\ InReg(c)
             THEN <<Entry(msgSeq + 1, "frame",
                      BuildWSFrame(RelayText(ParseWSFrame(conns[a].inq)),
                                   TEXT))>>
             ELSE <<>>]_vars

C5_Witness ==
  /\ program = "chat"
  /\ \E a, b, c \in ConnIds :
       /\ a # b /\ a # c /\ b # c
       /\ InReg(a) /\ InReg(b) /\ InReg(c)
       /\ Len(wire[a]) = 1
       /\ Len(wire[b]) = 2 /\ wire[b][2].id = 1
       /\ wire[b][2].bytes = <<129, 5, 91, 97, 93, 32, 104>>
       /\ wire[c] = wire[b]


(* C6: processing a command (a console line other than "/quit" in the     *)
(* chat server, a change of a readable file in the file monitor) puts     *)
(* exactly one frame carrying it on the wire of every connection in the   *)
(* registry and nothing on any other wire; and whatever a step sends      *)
(* belongs to the command of that step, never to an earlier one.          *)
ConsoleCommand ==
  /\ program = "chat" /\ pc = "stdin"
  /\ STDIN_FILENO \in read_fds
  /\ cin[1] # QuitCommand

FileCommand ==
  /\ program = "monitor" /\ pc = "inotify"
  /\ inotify_fd \in fds
  /\ disk # Unreadable

C6_CommandReachesRegistry ==
  [][/\ ConsoleCommand =>
          \A c \in ConnIds :
            Sent(c) = IF InReg(c)
                      THEN <<Entry(msgSeq + 1, "frame",
                               BuildWSFrame(ServerMessage(cin[1]), TEXT))>>
                      ELSE <<>>
     /\ FileCommand =>
          \A c \in ConnIds :
            IF InReg(c)
            THEN /\ Concat(Sent(c)) = BuildWSFrame(disk, TEXT)
                 /\ \A k \in 1..Len(Sent(c)) :
                      Sent(c)[k] = Entry(msgSeq + 1, "frame", Sent(c)[k].bytes)
            ELSE Sent(c) = <<>>
     /\ \A c \in 1..Len(conns') : \A k \in 1..Len(Sent(c)) :
          \/ Sent(c)[k].id = 0
          \/ Sent(c)[k].id = msgSeq + 1 /\ msgSeq' = msgSeq + 1
    ]_vars

C6_Witness ==
  /\ program = "chat" /\ pc = "select"
  /\ \E c, d \in ConnIds :
       /\ c < d /\ InReg(c) /\ InReg(d)
       /\ Len(wire[c]) = 2 /\ wire[c][2].id = 1
       /\ wire[c][2].bytes =
            <<129, 11, 91, 83, 101, 114, 118, 101, 114, 93, 32, 104, 105>>
       /\ Len(wire[d]) = 1 /\ wire[d][1].kind = "101"

(* C7: on "/quit" every connection in the registry is sent one CLOSE      *)
(* frame (0x88, length 0), nothing else is sent, the loop is left, and    *)
(* after that nothing is sent, received, accepted or read any more.       *)
QuitEntered ==
  /\ program = "chat" /\ pc = "stdin"
  /\ STDIN_FILENO \in read_fds
  /\ cin[1] = QuitCommand

C7_QuitSendsCloseFrames ==
  [][/\ QuitEntered =>
          /\ pc' = "cleanup"
          /\ \A c \in ConnIds :
               Sent(c) = IF InReg(c)
                         THEN <<Entry(msgSeq + 1, "frame", <<136, 0>>)>>
                         ELSE <<>>
     /\ pc \in {"cleanup", "done"} =>
          /\ pc' = "done"
          /\ wire' = wire
          /\ client_sockets' = client_sockets
          /\ cin' = cin /\ pending' = pending
          /\ Len(conns') = Len(conns)
          /\ \A c \in ConnIds : conns'[c].inq = conns[c].inq
    ]_vars

C7_Witness ==
  /\ program = "chat" /\ pc = "cleanup"
  /\ \E c, d \in ConnIds :
       /\ c # d /\ InReg(c) /\ InReg(d)
       /\ wire[c][Len(wire[c])].bytes = <<136, 0>>
       /\ wire[d][Len(wire[d])].bytes = <<136, 0>>

(* C8: a step in which accept fails, a recv fails or a frame is sent to a *)
(* peer that has gone does not leave the loop and neither closes nor      *)
(* removes any connection other than the one whose recv failed.           *)
OthersUntouched(c) ==
  \A d \in ConnIds \ {c} :
    /\ conns'[d].closes = conns[d].closes
    /\ InReg(d) => InRegOf(Reg', conns', d)

LoopGoesOn == pc' \notin {"cleanup", "done"}

\* accept() was called and returned no connection.
AcceptFailed == pc = "accept" /\ Len(conns') = Len(conns)

HandshakeRecvFails(c) ==
  Handshaking(c) /\ conns[c].inq = <<>> /\ conns[c].gone

\* The step sends a frame to the registry (other than on "/quit").
Broadcasting ==
  \/ ConsoleCommand
  \/ FileCommand
  \/ \E a \in ConnIds :
       /\ program = "chat" /\ RecvData(a)
       /\ ParseWSFrame(conns[a].inq) # <<>>
       /\ ChatRelay(ParseWSFrame(conns[a].inq)).ok
       /\ \E c \in ConnIds \ {a} : InReg(c)

SendFails == Broadcasting /\ \E c \in ConnIds : InReg(c) /\ conns[c].gone

C9_OnlySelectBlocks ==
  (pc = "handshake" /\ NewFd >= 0 /\ ReadFds \ {server_fd} # {}) =>
    Readable(conns, NewFd)

(* C10: a decoded non-empty chat payload that is shorter than 4 bytes, or *)
(* whose 32-bit big-endian name length exceeds the bytes after the first  *)
(* 4, makes the server send nothing and leaves the registry and every     *)
(* handle as they were.                                                   *)
Malformed(payload) ==
  \/ Len(payload) < 4
  \/ At(payload, 0) # 0 \/ At(payload, 1) # 0       \* name length >= 2^16
  \/ At(payload, 2) * 256 + At(payload, 3) > Len(payload) - 4

C10_MalformedPayloadDropped ==
  [][\A a \in ConnIds :
       (program = "chat" /\ RecvData(a)
          /\ ParseWSFrame(conns[a].inq) # <<>>
          /\ Malformed(ParseWSFrame(conns[a].inq))) =>
         /\ wire' = wire
         /\ client_sockets' = client_sockets
         /\ \A c \in ConnIds : conns'[c].closes = conns[c].closes]_vars


(* C15: when the chat server receives from a registered connection a      *)
(* frame whose length code is 127, that step removes the connection from  *)
(* the registry and closes its handle.                                    *)
C15_Code127IsFatal ==
  [][\A c \in ConnIds :
       (program = "chat" /\ RecvData(c)
          /\ Len(conns[c].inq) >= 2 /\ conns[c].inq[2] % 128 = 127) =>
         /\ ~InRegOf(Reg', conns', c)
         /\ conns'[c].closes = 1]_vars

(* ================= functions studied on their own ====================== *)
\* The servers' variables, which stay as they are while a function is
\* applied to an argument.
serverVars == <<pc, conns, wire, pending, cin, msgSeq, it, chatVars, monVars>>

\* A function is about to be applied: the servers are not running.
Idle ==
  /\ pc = "call"
  /\ conns = <<>> /\ wire = <<>> /\ pending = FALSE /\ cin = <<>>
  /\ msgSeq = 0 /\ it = 0
  /\ client_sockets = <<>> /\ read_fds = {} /\ new_client = -1
  /\ Clients = <<>> /\ fds = {} /\ client_fd = -1
  /\ watch = FALSE /\ disk = <<>> /\ FileContent = <<>>
  /\ res = [done |-> FALSE]

\* n bytes, all equal to b.
Fill(n, b) == [i \in 1..n |-> b]

\* htonl(n) as the four bytes it puts in memory.
Htonl(n) ==
  <<(n \div 16777216) % 256, (n \div 65536) % 256, (n \div 256) % 256, n % 256>>

(* ------------------------- the senders --------------------------------- *)
\* Longest text tried besides the lengths around 125 and 0xFFFF.
MaxText == 12

\* part_002 lines 138-144: the payload a client sends for one input line.
ClientPayload(username, input) == Htonl(Len(username)) \o username \o input

\* The payload a sender means to send for a text, and the bytes it hands
\* to send() for it.
\*   "console": websocket_server.cc lines 146-153, a console line;
\*   "file":    BroadcastToClients(FileContent), per client;
\*   "client":  part_002 lines 138-148, user "a".
SenderPayload(kind, text) ==
  IF kind = "console" THEN ServerMessage(text)
  ELSE IF kind = "file" THEN text
  ELSE ClientPayload(<<97>>, text)

SenderBytes(kind, text) ==
  IF kind = "file"
  THEN SendWsMessage(text)[1] \o SendWsMessage(text)[2]
  ELSE BuildWSFrame(SenderPayload(kind, text), TEXT)

TextLengths ==
  (0..MaxText) \cup {116, 117, 120, 121, 125, 126, 127,
                     65526, 65527, 65530, 65531, 65535, 65536}

\* The text is n bytes "a".
SenderArgs ==
  {[fn |-> "send", kind |-> k, n |-> n] :
     k \in {"console", "file", "client"}, n \in TextLengths}

\* A sender builds the frame for its text and hands it to send().  Kept of
\* it: the size of the payload, the first bytes handed to send(), how many
\* bytes were handed to send(), whether the bytes after the header are
\* the payload, and whether the bytes are BuildWSFrame's TEXT frame for the
\* payload.
SendText ==
  /\ program = "codec" /\ arg.fn = "send" /\ ~res.done
  /\ \E payload \in {SenderPayload(arg.kind, Fill(arg.n, 97))} :
     \E sent \in {SenderBytes(arg.kind, Fill(arg.n, 97))} :
       res' = [done |-> TRUE,
               payload_size |-> Len(payload),
               head |-> Substr(sent, 0, 4),
               size |-> Len(sent),
               verbatim |->
                 SubstrFrom(sent, Len(sent) - Len(payload)) = payload,
               as_built |-> sent = BuildWSFrame(payload, TEXT)]
  /\ UNCHANGED <<program, arg, serverVars>>

(* ------------------- BuildWSFrame and ParseWSFrame --------------------- *)
\* Longest buffer of which every content over ByteSamples is tried.
MaxBuf == 4

\* n bytes i, i + 1, ... (modulo 256).
Ramp(n, first) == [i \in 1..n |-> (first + i - 1) % 256]

PayloadLengths == (0..MaxText) \cup {125, 126, 127, 255, 256}

Opcodes == {CONTINUATION, TEXT, BINARY, CLOSE, PING, PONG}

\* The payload is Ramp(n, first).
RoundTripArgs ==
  {[fn |-> "roundtrip", n |-> n, first |-> first, opcode |-> op] :
     n \in PayloadLengths, first \in {0, 97, 250}, op \in Opcodes}
  \cup
  {[fn |-> "roundtrip", n |-> n, first |-> 250, opcode |-> op] :
     n \in {65534, 65535}, op \in {TEXT, PING}}

\* A payload is encoded and the frame decoded again.  Kept of it: the
\* first bytes and the size of the frame, the size of what was decoded,
\* whether that is the payload, and whether the frame ends with the payload.
RoundTrip ==
  /\ program = "codec" /\ arg.fn = "roundtrip" /\ ~res.done
  /\ \E payload \in {Ramp(arg.n, arg.first)} :
     \E frame \in {BuildWSFrame(payload, arg.opcode)} :
     \E parsed \in {ParseWSFrame(frame)} :
       res' = [done |-> TRUE,
               head |-> Substr(frame, 0, 4),
               size |-> Len(frame),
               parsed_size |-> Len(parsed),
               same |-> parsed = payload,
               verbatim |-> SubSeq(frame, Len(frame) - Len(payload) + 1,
                                   Len(frame)) = payload]
  /\ UNCHANGED <<program, arg, serverVars>>

\* The frame a peer that masks (RFC 6455, section 5.3) sends for a
\* payload of at most 65535 bytes with mask key key.
MaskedFrame(payload, key, opcode) ==
  LET len == Len(payload)
  IN <<128 + opcode>>
       \o (IF len < 126 THEN <<128 + len>>
           ELSE <<128 + 126, len \div 256, len % 256>>)
       \o key
       \o [i \in 1..len |-> BitXor(payload[i], key[((i - 1) % 4) + 1])]

MaskKeys ==
  {<<0, 0, 0, 0>>, <<1, 2, 3, 4>>, <<255, 255, 255, 255>>, <<55, 250, 33, 61>>}

\* The payload is Ramp(n, first).
MaskedArgs ==
  {[fn |-> "masked", n |-> n, first |-> first, key |-> k] :
     n \in PayloadLengths, first \in {0, 250}, k \in MaskKeys}
  \cup
  {[fn |-> "masked", n |-> 65535, first |-> 250, key |-> <<55, 250, 33, 61>>]}

\* A masked frame is decoded.  Kept of it: the size of what was decoded
\* and whether that is the payload.
DecodeMasked ==
  /\ program = "codec" /\ arg.fn = "masked" /\ ~res.done
  /\ \E payload \in {Ramp(arg.n, arg.first)} :
     \E parsed \in {ParseWSFrame(MaskedFrame(payload, arg.key, TEXT))} :
       res' = [done |-> TRUE,
               parsed_size |-> Len(parsed),
               same |-> parsed = payload]
  /\ UNCHANGED <<program, arg, serverVars>>

ByteSamples == {0, 1, 126, 127, 129, 255}

RECURSIVE BuffersOfLength(_)
BuffersOfLength(n) ==
  IF n = 0 THEN {<<>>}
  ELSE {Append(b, x) : b \in BuffersOfLength(n - 1), x \in ByteSamples}

\* Every buffer of at most MaxBuf sampled bytes, and headers of every
\* length code followed by 0 to 12 or 124 to 136 bytes.
ParseArgs ==
  {[fn |-> "parse", buffer |-> b] :
     b \in UNION {BuffersOfLength(n) : n \in 0..MaxBuf}}
  \cup
  {[fn |-> "parse", buffer |-> <<129, b2>> \o pre \o Ramp(n, 1)] :
     b2 \in {5, 125, 126, 127, 133, 253, 254, 255},
     pre \in {<<>>, <<0, 5>>, <<0, 126>>},
     n \in (0..12) \cup (124..136)}

\* A received buffer is decoded.
Decode ==
  /\ program = "codec" /\ arg.fn = "parse" /\ ~res.done
  /\ res' = [done |-> TRUE,
             parsed |-> ParseWSFrame(arg.buffer),
             reads |-> ParseWSFrameReads(arg.buffer)]
  /\ UNCHANGED <<program, arg, serverVars>>

\* Inputs of the Base64 encoders: every buffer over ByteSamples of up to
\* MaxBuf bytes, runs of consecutive byte values of up to MaxText bytes,
\* and "f", "fo", "foo".
Base64Args ==
  {[fn |-> "base64", input |-> b] :
     b \in UNION {BuffersOfLength(n) : n \in 0..MaxBuf}}
  \cup
  {[fn |-> "base64", input |-> Ramp(n, first)] :
     n \in 0..MaxText, first \in {0, 97, 250}}
  \cup
  {[fn |-> "base64", input |-> b] :
     b \in {<<102>>, <<102, 111>>, <<102, 111, 111>>}}

\* An input is encoded by EncodeBase64 and by the monitor's Base64Encode.
Encode64 ==
  /\ program = "codec" /\ arg.fn = "base64" /\ ~res.done
  /\ res' = [done |-> TRUE,
             encoded |-> EncodeBase64(arg.input),
             output |-> Base64Encode(arg.input)]
  /\ UNCHANGED <<program, arg, serverVars>>

\* lines 168-203: the frame the sweep relays for the bytes one recv
\* returned, none (the empty buffer) when it relays nothing.
Dispatched(data) ==
  IF ParseWSFrame(data) # <<>> /\ ChatRelay(ParseWSFrame(data)).ok
  THEN BuildWSFrame(ChatRelay(ParseWSFrame(data)).fullMsg, TEXT)
  ELSE <<>>

\* line 160: the most bytes one recv returns.
SockBufferSize == 4096

\* Frames a client sends for user "a": the text "h" unmasked and masked, a
\* text of six bytes that are not characters, and a text that does not fit
\* in sock_buffer.
SplitFrames ==
  << <<129, 6, 0, 0, 0, 1, 97, 104>>,
     MaskedFrame(<<0, 0, 0, 1, 97, 104>>, <<1, 2, 3, 4>>, TEXT),
     <<129, 11, 0, 0, 0, 1, 97, 9, 4, 0, 0, 0, 0>>,
     <<129, 126, 16, 109>> \o <<0, 0, 0, 1, 97>> \o Fill(4200, 104) >>

\* Frame f arrives in two receives: cut bytes, then the rest.
SplitArgs ==
  {a \in {[fn |-> "split", frame |-> f, cut |-> k] :
            f \in 1..Len(SplitFrames), k \in (1..16) \cup {SockBufferSize}} :
     a.cut < Len(SplitFrames[a.frame])}

\* The sweep serves the two receives one after the other.  Kept of it:
\* what it relays for the frame received at once (as far as it fits in
\* sock_buffer), and for each of the two parts.
ReceiveSplit ==
  /\ program = "codec" /\ arg.fn = "split" /\ ~res.done
  /\ \E frame \in {SplitFrames[arg.frame]} :
       /\ arg.cut < Len(frame)
       /\ res' = [done |-> TRUE,
                  whole |-> Dispatched(Substr(frame, 0, SockBufferSize)),
                  first |-> Dispatched(Substr(frame, 0, arg.cut)),
                  second |-> Dispatched(Substr(SubstrFrom(frame, arg.cut),
                                               0, SockBufferSize))]
  /\ UNCHANGED <<program, arg, serverVars>>

CodecArgs ==
  SenderArgs \cup RoundTripArgs \cup MaskedArgs \cup ParseArgs \cup Base64Args
    \cup SplitArgs

InitCodec ==
  /\ program = "codec"
  /\ Idle
  /\ arg \in CodecArgs

NextCodec ==
  \/ SendText
  \/ RoundTrip
  \/ DecodeMasked
  \/ Decode
  \/ Encode64
  \/ ReceiveSplit

SpecCodec == InitCodec /\ [][NextCodec]_vars

\* The length a frame header declares, and the size of that header
\* (RFC 6455, section 5.2; 0 bytes declared when there is no header).
DeclaredLength(frame) ==
  IF Len(frame) < 2 THEN 0
  ELSE IF frame[2] % 128 < 126 THEN frame[2] % 128
  ELSE IF frame[2] % 128 = 126 /\ Len(frame) >= 4
       THEN frame[3] * 256 + frame[4]
  ELSE 0

HeaderSize(frame) ==
  IF Len(frame) >= 2 /\ frame[2] % 128 = 126 THEN 4 ELSE 2

(* C11: every frame a sender hands to send() has a length field equal to  *)
(* the number of payload bytes that follow it, and those bytes are the    *)
(* whole payload; a payload longer than 65535 bytes is not sent at all.   *)
C11_LengthFieldMatchesPayload ==
  (program = "codec" /\ arg.fn = "send" /\ res.done) =>
    /\ res.payload_size <= 65535
    /\ DeclaredLength(res.head) = res.payload_size
    /\ res.size = HeaderSize(res.head) + res.payload_size
    /\ res.verbatim

(* C12: for every payload P of 0 to 65535 bytes and every opcode,         *)
(* ParseWSFrame(BuildWSFrame(P, opcode)) is P.                            *)
C12_RoundTrip ==
  (program = "codec" /\ arg.fn = "roundtrip" /\ res.done) =>
    /\ res.same
    /\ res.parsed_size = arg.n

C12_Witness ==
  /\ program = "codec" /\ arg.fn = "roundtrip" /\ res.done
  /\ arg.n = 65535 /\ arg.opcode = PING
  /\ res.head = <<137, 126, 255, 255>>
  /\ res.size = 65539
  /\ res.parsed_size = 65535 /\ res.same

(* C13: decoding a complete masked frame with mask key K whose payload    *)
(* bytes are P[i] XOR K[i mod 4] gives P, for P of at most 65535 bytes.   *)
C13_MaskedDecode ==
  (program = "codec" /\ arg.fn = "masked" /\ res.done) =>
    /\ res.same
    /\ res.parsed_size = arg.n

C13_Witness ==
  /\ program = "codec" /\ arg.fn = "masked" /\ res.done
  /\ arg.key = <<55, 250, 33, 61>>
  /\ arg.n = 65535 /\ arg.first = 250
  /\ res.parsed_size = 65535 /\ res.same

(* C14: a buffer whose second byte has length code 127, masked or not,    *)
(* decodes to the empty result whatever follows.                          *)
C14_Code127Fails ==
  (program = "codec" /\ arg.fn = "parse" /\ res.done
     /\ Len(arg.buffer) >= 2 /\ arg.buffer[2] % 128 = 127) =>
    res.parsed = <<>>

C14_Witness ==
  /\ program = "codec" /\ arg.fn = "parse" /\ res.done
  /\ Len(arg.buffer) = 2 + 4 + 127 /\ arg.buffer[2] = 255
  /\ res.parsed = <<>>

(* C16: ParseWSFrame reads only indices below the buffer's size, and it   *)
(* returns the empty result when fewer than 2 bytes (4 for length code    *)
(* 126) are present or when the declared length, plus 4 when the mask bit *)
(* is set, exceeds the bytes after the header.                            *)
Incomplete(buffer) ==
  \/ Len(buffer) < 2
  \/ /\ buffer[2] % 128 = 126
     /\ Len(buffer) < 4
  \/ /\ buffer[2] % 128 # 127
     /\ DeclaredLength(buffer) + (IF buffer[2] >= 128 THEN 4 ELSE 0)
          > Len(buffer) - HeaderSize(buffer)

C16_ParseStaysInBuffer ==
  (program = "codec" /\ arg.fn = "parse" /\ res.done) =>
    /\ \A i \in res.reads : 0 <= i /\ i < Len(arg.buffer)
    /\ Incomplete(arg.buffer) => res.parsed = <<>>

C16_Witness ==
  /\ program = "codec" /\ arg.fn = "parse" /\ res.done
  /\ arg.buffer = <<129, 126, 0, 5>> \o Ramp(4, 1)
  /\ res.reads = {1, 2, 3}
  /\ res.parsed = <<>>

\* The 64 symbols of the standard Base64 alphabet: A-Z, a-z, 0-9, +, /.
StandardAlphabet == (65..90) \cup (97..122) \cup (48..57) \cup {43, 47}

\* The number of "=" (61) at the end of a string.
RECURSIVE TrailingPads(_)
TrailingPads(str) ==
  IF str = <<>> \/ str[Len(str)] # 61 THEN 0
  ELSE 1 + TrailingPads(SubSeq(str, 1, Len(str) - 1))

(* C21: EncodeBase64 of n bytes is 4 * ceil(n / 3) characters long: symbols *)
(* of the standard alphabet followed by no "=" when n mod 3 = 0, two when  *)
(* n mod 3 = 1 and one when n mod 3 = 2; "" gives "", "f" gives "Zg==",    *)
(* "fo" gives "Zm8=" and "foo" gives "Zm9v".                               *)
C21_Base64Shape ==
  (program = "codec" /\ arg.fn = "base64" /\ res.done) =>
    LET n == Len(arg.input)
        pads == (3 - (n % 3)) % 3
    IN /\ Len(res.encoded) = 4 * ((n + 2) \div 3)
       /\ TrailingPads(res.encoded) = pads
       /\ \A k \in 1..(Len(res.encoded) - pads) :
            res.encoded[k] \in StandardAlphabet
       /\ arg.input = <<>> => res.encoded = <<>>
       /\ arg.input = <<102>> => res.encoded = <<90, 103, 61, 61>>
       /\ arg.input = <<102, 111>> => res.encoded = <<90, 109, 56, 61>>
       /\ arg.input = <<102, 111, 111>> => res.encoded = <<90, 109, 57, 118>>

C21_Witness ==
  /\ program = "codec" /\ arg.fn = "base64" /\ res.done
  /\ arg.input = <<102>>
  /\ res.encoded = <<90, 103, 61, 61>>

(* --------------------------- the handshakes ---------------------------- *)
\* Keys and the accept values RFC 6455 prescribes for them.
\* "dGhlIHNhbXBsZSBub25jZQ=="
KeyRfc ==
  <<100, 71, 104, 108, 73, 72, 78, 104, 98, 88, 66, 115, 90, 83, 66, 117,
    98, 50, 53, 106, 90, 81, 61, 61>>

\* "x3JJHMbDL1EzLkh9GBhXDw=="
KeyOther ==
  <<120, 51, 74, 74, 72, 77, 98, 68, 76, 49, 69, 122, 76, 107, 104, 57, 71,
    66, 104, 88, 68, 119, 61, 61>>

\* "k"
KeyShort ==
  <<107>>

\* "s3pPLMBiTxaQ9kYGzzhZRbK+xOo="
AcceptRfc ==
  <<115, 51, 112, 80, 76, 77, 66, 105, 84, 120, 97, 81, 57, 107, 89, 71,
    122, 122, 104, 90, 82, 98, 75, 43, 120, 79, 111, 61>>

\* "HSmrc0sMlYUkAGmm5OPpG2HaGWk="
AcceptOther ==
  <<72, 83, 109, 114, 99, 48, 115, 77, 108, 89, 85, 107, 65, 71, 109, 109,
    53, 79, 80, 112, 71, 50, 72, 97, 71, 87, 107, 61>>

\* "cai0HFWL7DEHZkyHxdyv1Pn3R6M="
AcceptShort ==
  <<99, 97, 105, 48, 72, 70, 87, 76, 55, 68, 69, 72, 90, 107, 121, 72, 120,
    100, 121, 118, 49, 80, 110, 51, 82, 54, 77, 61>>

KnownKeys == {KeyRfc, KeyOther, KeyShort}

ReferenceAccept(key) ==
  IF key = KeyRfc THEN AcceptRfc
  ELSE IF key = KeyOther THEN AcceptOther
  ELSE AcceptShort

CRLF == <<13, 10>>

\* "GET /chat HTTP/1.1\r\nHost: 127.0.0.1:8080\r\nUpgrade: websocket\r\nConnection: Upgrade\r\n"
RequestLine ==
  <<71, 69, 84, 32, 47, 99, 104, 97, 116, 32, 72, 84, 84, 80, 47, 49, 46,
    49, 13, 10, 72, 111, 115, 116, 58, 32, 49, 50, 55, 46, 48, 46, 48, 46,
    49, 58, 56, 48, 56, 48, 13, 10, 85, 112, 103, 114, 97, 100, 101, 58, 32,
    119, 101, 98, 115, 111, 99, 107, 101, 116, 13, 10, 67, 111, 110, 110,
    101, 99, 116, 105, 111, 110, 58, 32, 85, 112, 103, 114, 97, 100, 101,
    13, 10>>

\* "Sec-WebSocket-Version: 13\r\n"
VersionLine ==
  <<83, 101, 99, 45, 87, 101, 98, 83, 111, 99, 107, 101, 116, 45, 86, 101,
    114, 115, 105, 111, 110, 58, 32, 49, 51, 13, 10>>

\* "sec-websocket-key"
LowerCaseKey ==
  <<115, 101, 99, 45, 119, 101, 98, 115, 111, 99, 107, 101, 116, 45, 107,
    101, 121>>

\* A request in the form the client sends it, with one header line for the
\* key: name, ":", blanks, the key, blanks.
RequestOf(name, before, key, after) ==
  RequestLine \o name \o <<58>> \o before \o key \o after \o CRLF
    \o VersionLine \o CRLF

\* What the server's single recv may return, with the key it carries
\* (<<>>: none): nothing; requests of the client's form; a request
\* without the header, with an empty value, with a lower-case name, and
\* with a NUL byte in front.
ServerArgs ==
  {[fn |-> "server", request |-> <<>>, key |-> <<>>]}
  \cup
  {[fn |-> "server", request |-> RequestOf(SecWebSocketKey, b, k, a),
    key |-> k] :
     k \in KnownKeys, b \in {<<32>>, <<>>, <<32, 9>>}, a \in {<<>>, <<32>>}}
  \cup
  {[fn |-> "server", request |-> r, key |-> <<>>] :
     r \in {RequestLine \o CRLF,
            RequestOf(SecWebSocketKey, <<32>>, <<>>, <<>>),
            RequestOf(LowerCaseKey, <<32>>, KeyRfc, <<>>),
            <<0>> \o RequestOf(SecWebSocketKey, <<32>>, KeyRfc, <<>>)}}

\* The chat server's DoHandshake on what recv returned.
ServerHandshake ==
  /\ program = "handshake" /\ arg.fn = "server" /\ ~res.done
  /\ res' = [done |-> TRUE,
             ok |-> DoHandshake(arg.request).ok,
             sent |-> DoHandshakeSends(arg.request)]
  /\ UNCHANGED <<program, arg, serverVars>>

MonitorArgs == {[fn |-> "monitor", key |-> k] : k \in KnownKeys}

\* The file monitor's HandleHandshake on a key.
MonitorHandshake ==
  /\ program = "handshake" /\ arg.fn = "monitor" /\ ~res.done
  /\ res' = [done |-> TRUE, sent |-> <<HandleHandshake(arg.key)>>]
  /\ UNCHANGED <<program, arg, serverVars>>

(* ----------------------------- the client ------------------------------ *)
\* Iterations of the client's loop in one run.
MaxClientSteps == 3

\* "101 Switching Protocols"
Status101 ==
  <<49, 48, 49, 32, 83, 119, 105, 116, 99, 104, 105, 110, 103, 32, 80, 114,
    111, 116, 111, 99, 111, 108, 115>>

\* "400 Bad Request"
Status400 ==
  <<52, 48, 48, 32, 66, 97, 100, 32, 82, 101, 113, 117, 101, 115, 116>>

\* "101 switching protocols"
Status101Lower ==
  <<49, 48, 49, 32, 115, 119, 105, 116, 99, 104, 105, 110, 103, 32, 112,
    114, 111, 116, 111, 99, 111, 108, 115>>

\* "sec-websocket-accept"
LowerCaseAccept ==
  <<115, 101, 99, 45, 119, 101, 98, 115, 111, 99, 107, 101, 116, 45, 97, 99,
    99, 101, 112, 116>>

\* "HTTP/1.1 "
HttpVersion ==
  <<72, 84, 84, 80, 47, 49, 46, 49, 32>>

\* "Upgrade: websocket\r\nConnection: Upgrade\r\n"
UpgradeHeaders ==
  <<85, 112, 103, 114, 97, 100, 101, 58, 32, 119, 101, 98, 115, 111, 99,
    107, 101, 116, 13, 10, 67, 111, 110, 110, 101, 99, 116, 105, 111, 110,
    58, 32, 85, 112, 103, 114, 97, 100, 101, 13, 10>>

\* A response with the given status and header lines.
ResponseOf(status, lines) ==
  HttpVersion \o status \o CRLF \o UpgradeHeaders \o lines \o CRLF

\* An accept value that differs from AcceptRfc in its last character only.
AcceptCut == Substr(AcceptRfc, 0, Len(AcceptRfc) - 1)

\* Header lines carrying an accept value, and the value they carry.
AcceptLines ==
  {[lines |-> <<>>, accept |-> <<>>],
   [lines |-> SecWebSocketAccept \o <<58, 32>> \o AcceptRfc \o CRLF,
    accept |-> AcceptRfc],
   [lines |-> SecWebSocketAccept \o <<58, 32, 9>> \o AcceptRfc \o <<32>> \o CRLF,
    accept |-> AcceptRfc],
   [lines |-> SecWebSocketAccept \o <<58, 32>> \o AcceptCut \o CRLF,
    accept |-> AcceptCut],
   [lines |-> SecWebSocketAccept \o <<58, 32>> \o AcceptOther \o CRLF,
    accept |-> AcceptOther],
   [lines |-> LowerCaseAccept \o <<58, 32>> \o AcceptRfc \o CRLF,
    accept |-> <<>>],
   [lines |-> <<0>> \o SecWebSocketAccept \o <<58, 32>> \o AcceptRfc \o CRLF,
    accept |-> <<>>]}

\* What the client's recv may return after its request: nothing; what the
\* chat server and the file monitor answer to the client's request; made-up
\* responses.  has101 and accept say what the response carries.
ClientArgs ==
  {[fn |-> "client", from |-> "nobody", response |-> <<>>, has101 |-> FALSE,
    accept |-> <<>>],
   [fn |-> "client", from |-> "chat",
    response |-> DoHandshakeSends(HandshakeRequest)[1], has101 |-> TRUE,
    accept |-> AcceptRfc],
   [fn |-> "client", from |-> "monitor",
    response |-> HandleHandshake(UpgradeRequest(HandshakeRequest).key),
    has101 |-> TRUE, accept |-> AcceptRfc]}
  \cup
  {[fn |-> "client", from |-> "other", response |-> ResponseOf(st, al.lines),
    has101 |-> (st = Status101), accept |-> al.accept] :
     st \in {Status101, Status400, Status101Lower}, al \in AcceptLines}

username == <<97>>                                  \* "a"

ClientLines == {<<104, 105>>, <<>>, QuitCommand}    \* "hi", "", "/quit"

\* main, lines 93-97: the handshake; on failure close(sock) and return 1.
\* sent lists the buffers handed to send(), closes counts close(sock).
ClientHandshake ==
  /\ program = "client" /\ ~res.done
  /\ \E ok \in {ClientDoHandshake(arg.response)} :
       res' = [done |-> TRUE, ok |-> ok,
               pc |-> IF ok THEN "loop" ELSE "exit",
               sent |-> <<HandshakeRequest>>,
               closes |-> IF ok THEN 0 ELSE 1,
               steps |-> 0]
  /\ UNCHANGED <<program, arg, serverVars>>

\* One iteration of the client's loop (lines 103-149) and, when it breaks,
\* close(sock) (line 151).  select fails, or the socket is readable (the
\* server has closed, or sent data, which is decoded and printed), or a
\* line has been typed, or both.
ClientLoop ==
  /\ program = "client" /\ res.done /\ res.pc = "loop"
  /\ res.steps < MaxClientSteps
  /\ \E fails \in BOOLEAN, sock \in {"none", "closed", "data"},
        stdin \in {<<>>} \cup {<<l>> : l \in ClientLines} :
       /\ IF fails THEN sock = "none" /\ stdin = <<>>
          ELSE sock # "none" \/ stdin # <<>>
       /\ IF fails \/ sock = "closed"
          THEN res' = [res EXCEPT !.pc = "exit", !.closes = @ + 1,
                                  !.steps = @ + 1]
          ELSE IF stdin = <<>>
          THEN res' = [res EXCEPT !.steps = @ + 1]
          ELSE IF stdin[1] = QuitCommand
          THEN res' = [res EXCEPT
                         !.sent = Append(@, BuildWSFrame(<<>>, CLOSE)),
                         !.pc = "exit", !.closes = @ + 1, !.steps = @ + 1]
          ELSE res' = [res EXCEPT
                         !.sent =
                           Append(@, BuildWSFrame(
                                       ClientPayload(username, stdin[1]),
                                       TEXT)),
                         !.steps = @ + 1]
  /\ UNCHANGED <<program, arg, serverVars>>

\* Header blocks for ExtractHTTPHeaderValue and the field name asked for.
\* A block is some lines, then a line made of a name, ":", blanks, a text
\* without blanks at its ends, blanks, and CR LF.  present says whether the
\* name holds the field name; text is the text.
FieldName == <<75>>                                 \* "K"

ExtractArgs ==
  {[fn |-> "extract", headers |-> <<>>, key |-> FieldName,
    present |-> FALSE, text |-> <<>>]}
  \cup
  {[fn |-> "extract",
    headers |-> first \o name \o <<58>> \o before \o text \o after \o CRLF,
    key |-> FieldName,
    present |-> (name # <<107>>),
    text |-> text] :
     first \in {<<>>, <<72, 58, 32, 104>> \o CRLF},     \* "H: h"
     name \in {<<75>>, <<107>>, <<88, 45, 75>>},        \* "K", "k", "X-K"
     before \in {<<>>, <<32>>, <<9>>, <<32, 9>>},
     text \in {<<>>, <<118>>, <<118, 32, 119>>, <<97, 58, 98>>},
     after \in {<<>>, <<32>>, <<9>>, <<32, 32>>, <<13>>}}

\* ExtractHTTPHeaderValue on a header block.
Extract ==
  /\ program = "handshake" /\ arg.fn = "extract" /\ ~res.done
  /\ res' = [done |-> TRUE,
             value |-> ExtractHTTPHeaderValue(arg.headers, arg.key)]
  /\ UNCHANGED <<program, arg, serverVars>>

InitHandshake ==
  /\ Idle
  /\ \/ program = "handshake"
        /\ arg \in ServerArgs \cup MonitorArgs \cup ExtractArgs
     \/ program = "client" /\ arg \in ClientArgs

NextHandshake ==
  \/ ServerHandshake
  \/ MonitorHandshake
  \/ ClientHandshake
  \/ ClientLoop
  \/ Extract

SpecHandshake == InitHandshake /\ [][NextHandshake]_vars

(* C17: for the RFC 6455 sample key the accept value is                   *)
(* "s3pPLMBiTxaQ9kYGzzhZRbK+xOo="; for every key the accept value in the  *)
(* response of the chat server and of the file monitor is the value the   *)
(* client recomputes, and the client's handshake succeeds on what either  *)
(* answers to the client's own request.                                   *)
C17_AcceptAgrees ==
  /\ (program = "handshake" /\ arg.fn \in {"server", "monitor"}
        /\ res.done /\ arg.key # <<>>) =>
       /\ Len(res.sent) = 1
       /\ ExtractHTTPHeaderValue(res.sent[1], SecWebSocketAccept)
            = ReferenceAccept(arg.key)
       /\ ExtractHTTPHeaderValue(res.sent[1], SecWebSocketAccept)
            = EncodeBase64(ComputeSHA1Hash(arg.key \o magicGUID))
  /\ (program = "client" /\ res.done /\ arg.from \in {"chat", "monitor"}) =>
       res.ok

C17_Witness ==
  /\ program = "handshake" /\ res.done /\ arg.fn = "server"
  /\ arg.key = sec_websocket_key
  /\ ExtractHTTPHeaderValue(res.sent[1], SecWebSocketAccept) = AcceptRfc

(* C18: the chat server's handshake fails and sends nothing when recv     *)
(* returns no bytes or the request carries no key; otherwise it succeeds  *)
(* and sends exactly one response, which starts with the 101 status line  *)
(* and whose Sec-WebSocket-Accept value is the accept value of the key.   *)
C18_ServerHandshake ==
  (program = "handshake" /\ arg.fn = "server" /\ res.done) =>
    IF arg.request = <<>> \/ arg.key = <<>>
    THEN ~res.ok /\ res.sent = <<>>
    ELSE /\ res.ok
         /\ Len(res.sent) = 1
         /\ MatchAt(res.sent[1], HttpVersion \o Status101 \o CRLF, 0)
         /\ ExtractHTTPHeaderValue(res.sent[1], SecWebSocketAccept)
              = ReferenceAccept(arg.key)

C18_Witness ==
  /\ program = "handshake" /\ arg.fn = "server" /\ res.done
  /\ arg.request # <<>> /\ arg.key = <<>>
  /\ ~res.ok /\ res.sent = <<>>

(* C19: the client's handshake succeeds only if the response has the 101  *)
(* status and carries the accept value of the client's key; when it       *)
(* fails, the client has closed its socket once, has left main, and has   *)
(* sent nothing but its handshake request.                                *)
C19_ClientFailsClosed ==
  (program = "client" /\ res.done) =>
    /\ res.ok => (arg.has101 /\ arg.accept = AcceptRfc)
    /\ ~res.ok =>
         /\ res.pc = "exit"
         /\ res.closes = 1
         /\ res.sent = <<HandshakeRequest>>

C19_Witness ==
  /\ program = "client" /\ res.done
  /\ arg.has101 /\ arg.accept = AcceptCut
  /\ ~res.ok /\ res.pc = "exit" /\ res.closes = 1
  /\ res.sent = <<HandshakeRequest>>

(* ------------------------ ComputeSHA1Hash ------------------------------ *)
\* Longest input tried besides the lengths around the second block
\* boundary; the inputs are n bytes "a", and "abc".
MaxInput == 64

DigestArgs ==
  {[fn |-> "sha1", input |-> Fill(n, 97)] :
     n \in (0..MaxInput) \cup {119, 120, 128}}
  \cup {[fn |-> "sha1", input |-> <<97, 98, 99>>]}

\* ComputeSHA1Hash on an input.  Kept of it: the digest, and the size of
\* the padded message it processes.
Digest ==
  /\ program = "digest" /\ arg.fn = "sha1" /\ ~res.done
  /\ res' = [done |-> TRUE,
             digest |-> ComputeSHA1Hash(arg.input),
             padded_size |-> Len(SHA1Padded(arg.input))]
  /\ UNCHANGED <<program, arg, serverVars>>

InitDigest == program = "digest" /\ Idle /\ arg \in DigestArgs

NextDigest == Digest

SpecDigest == InitDigest /\ [][NextDigest]_vars

\* SHA-1 digests (FIPS 180): of the empty input, of "abc", and of 55, 56,
\* 63 and 64 bytes "a".
\* da39a3ee 5e6b4b0d 3255bfef 95601890 afd80709
Sha1OfEmpty ==
  <<218, 57, 163, 238, 94, 107, 75, 13, 50, 85, 191, 239, 149, 96, 24, 144,
    175, 216, 7, 9>>

\* a9993e36 4706816a ba3e2571 7850c26c 9cd0d89d
Sha1OfAbc ==
  <<169, 153, 62, 54, 71, 6, 129, 106, 186, 62, 37, 113, 120, 80, 194, 108,
    156, 208, 216, 157>>

\* c1c8bbdc22796e28c0e15163d20899b65621d65a
Sha1OfA55 ==
  <<193, 200, 187, 220, 34, 121, 110, 40, 192, 225, 81, 99, 210, 8, 153,
    182, 86, 33, 214, 90>>

\* c2db330f6083854c99d4b5bfb6e8f29f201be699
Sha1OfA56 ==
  <<194, 219, 51, 15, 96, 131, 133, 76, 153, 212, 181, 191, 182, 232, 242,
    159, 32, 27, 230, 153>>

\* 03f09f5b158a7a8cdad920bddc29b81c18a551f5
Sha1OfA63 ==
  <<3, 240, 159, 91, 21, 138, 122, 140, 218, 217, 32, 189, 220, 41, 184, 28,
    24, 165, 81, 245>>

\* 0098ba824b5c16427bd7a1122a5a442a25ec644d
Sha1OfA64 ==
  <<0, 152, 186, 130, 75, 92, 22, 66, 123, 215, 161, 18, 42, 90, 68, 42, 37,
    236, 100, 77>>

ReferenceDigest(n) ==
  IF n = 55 THEN Sha1OfA55
  ELSE IF n = 56 THEN Sha1OfA56
  ELSE IF n = 63 THEN Sha1OfA63
  ELSE Sha1OfA64

(* C20: ComputeSHA1Hash returns the standard digest of the empty input    *)
(* and of "abc" (and of the inputs of 55, 56, 63 and 64 bytes), and the   *)
(* message it processes is padded to the smallest multiple of 64 bytes    *)
(* that is at least n + 9.                                                *)
C20_DigestAndPadding ==
  (program = "digest" /\ res.done) =>
    /\ Len(res.digest) = 20
    /\ arg.input = <<>> => res.digest = Sha1OfEmpty
    /\ arg.input = <<97, 98, 99>> => res.digest = Sha1OfAbc
    /\ (Len(arg.input) \in {55, 56, 63, 64} /\ arg.input = Fill(Len(arg.input), 97))
         => res.digest = ReferenceDigest(Len(arg.input))
    /\ res.padded_size % 64 = 0
    /\ res.padded_size >= Len(arg.input) + 9
    /\ res.padded_size - 64 < Len(arg.input) + 9

C20_Witness ==
  /\ program = "digest" /\ res.done
  /\ Len(arg.input) = 56
  /\ res.padded_size = 128
  /\ res.digest = Sha1OfA56

\* Space, tab, LF, VT, FF, CR.
Whitespace == {32, 9, 10, 11, 12, 13}

(* C22: ExtractHTTPHeaderValue returns the empty result when no line holds *)
(* the field name followed by ":"; otherwise it returns the text after the *)
(* line's first colon without the blanks before it and without the CR, LF  *)
(* and blanks after it, so the result neither starts nor ends with a       *)
(* whitespace character.                                                   *)
C22_TrimmedValue ==
  (program = "handshake" /\ arg.fn = "extract" /\ res.done) =>
    /\ res.value = (IF arg.present THEN arg.text ELSE <<>>)
    /\ res.value # <<>> =>
         /\ res.value[1] \notin Whitespace
         /\ res.value[Len(res.value)] \notin Whitespace


(* C23: in one pass of the chat server's loop the accept and the handshake *)
(* of a new connection come first: they are entered from select() only,   *)
(* and when the console or the sweep is served the new connection has     *)
(* been admitted (handshake sent, handle in the registry) or rejected     *)
(* (handle closed, not in the registry).  A message relayed by the sweep  *)
(* of that pass is therefore sent to the connection admitted in it.       *)
Admitted == Owner(conns, new_client)

C23_AcceptBeforeSweep ==
  [][program = "chat" =>
       /\ (pc' \in {"accept", "handshake"} /\ pc' # pc) =>
            pc \in {"select", "accept"}
       /\ (pc \in {"stdin", "sweep"} /\ new_client >= 0) =>
            /\ conns[Admitted].hs \in {"ok", "failed"}
            /\ conns[Admitted].hs = "ok" =>
                 /\ InReg(Admitted)
                 /\ wire[Admitted][1] = Entry(0, "101", <<107>>)
            /\ conns[Admitted].hs = "failed" =>
                 /\ ~InReg(Admitted)
                 /\ conns[Admitted].closes = 1
                 /\ wire[Admitted] = <<>>
       /\ \A a \in ConnIds :
            (RecvData(a) /\ WellFormed(ParseWSFrame(conns[a].inq))
               /\ new_client >= 0 /\ conns[Admitted].hs = "ok") =>
              Sent(Admitted) =
                <<Entry(msgSeq + 1, "frame",
                        BuildWSFrame(RelayText(ParseWSFrame(conns[a].inq)),
                                     TEXT))>>]_vars

C23_Witness ==
  /\ program = "chat"
  /\ new_client >= 0
  /\ msgSeq = 1
  /\ Len(conns) = 2 /\ Admitted = 2
  /\ InReg(1) /\ InReg(2)
  /\ Len(wire[1]) = 1
  /\ wire[2] = <<Entry(0, "101", <<107>>),
                 Entry(1, "frame", <<129, 5, 91, 97, 93, 32, 104>>)>>

(* C24: the sweep of one pass visits the ready entries of the registry one *)
(* by one, in order: when it starts nothing ready lies before its         *)
(* position; each step is at an entry that is in the registry and ready,  *)
(* and leaves to be visited exactly the ready entries that followed it,   *)
(* also when the step erased the entry (none skipped, none visited twice, *)
(* no position past the end); the pass returns to select() only when      *)
(* nothing is left.  A relay performed by a step sends only to handles    *)
(* that are in the registry at that step.                                 *)
Todo(reg, i, rfds) ==
  LET ready(fd) == fd \in rfds
  IN SelectSeq(SubSeq(reg, i + 1, Len(reg)), ready)

Listed(reg, fd) == \E i \in 1..Len(reg) : reg[i] = fd

C25_FrameLayout ==
  (program = "codec" /\ arg.fn = "roundtrip" /\ res.done) =>
    /\ res.head[1] = BitOr(128, arg.opcode)
    /\ res.head[2] < 128
    /\ IF arg.n < 126
       THEN /\ res.head[2] = arg.n
            /\ res.size = arg.n + 2
       ELSE /\ res.head[2] = 126
            /\ res.head[3] * 256 + res.head[4] = arg.n
            /\ res.size = arg.n + 4
    /\ res.verbatim

C25_Witness ==
  /\ program = "codec" /\ arg.fn = "roundtrip" /\ res.done
  /\ arg.n = 256 /\ arg.opcode = CLOSE
  /\ res.head = <<136, 126, 1, 0>>
  /\ res.size = 260
  /\ res.verbatim

(* C26: what the chat server does with received bytes does not depend on  *)
(* their first byte (FIN and opcode): the payload decoded and the frames   *)
(* relayed are those of the same bytes with any other first byte, the     *)
(* registry is left as it is and the sender stays open.  So a CLOSE, PING  *)
(* or PONG frame does not remove its connection, nothing is sent back to   *)
(* its sender, and whatever is sent to the others is a TEXT frame.         *)
FirstBytes == {128 + op : op \in Opcodes} \cup {CONTINUATION, TEXT, CLOSE}

WithByte0(buffer, b) == <<b>> \o Tail(buffer)

\* What the sweep relays for a decoded payload (lines 170-203).
Relayed(payload) ==
  IF payload # <<>> /\ ChatRelay(payload).ok
  THEN <<Entry(msgSeq + 1, "frame",
               BuildWSFrame(ChatRelay(payload).fullMsg, TEXT))>>
  ELSE <<>>

C26_FirstByteIgnored ==
  [][\A a \in ConnIds :
       (program = "chat" /\ RecvData(a)) =>
         /\ \A payload \in {ParseWSFrame(WithByte0(conns[a].inq, 0))} :
              /\ \A b \in FirstBytes :
                   ParseWSFrame(WithByte0(conns[a].inq, b)) = payload
              /\ \A frames \in {Relayed(payload)} :
                   \A c \in ConnIds :
                     Sent(c) = IF c # a /\ InReg(c) THEN frames ELSE <<>>
         /\ client_sockets' = client_sockets
         /\ conns'[a].closes = conns[a].closes
         /\ Sent(a) = <<>>
         /\ \A c \in ConnIds :
              \A i \in 1..Len(Sent(c)) :
                /\ Sent(c)[i].kind = "frame"
                /\ Sent(c)[i].bytes[1] = 128 + TEXT]_vars

\* The PING frame has been received from one of two clients: its payload
\* went to the other as a TEXT frame, and both are still in the registry.
C26_Witness ==
  /\ program = "chat"
  /\ Len(conns) = 2
  /\ \E a, c \in ConnIds :
       /\ a # c
       /\ InReg(a) /\ InReg(c)
       /\ conns[a].closes = 0 /\ conns[a].inq = <<>>
       /\ Len(wire[a]) = 1
       /\ wire[c] = <<Entry(0, "101", <<107>>),
                      Entry(1, "frame", <<129, 5, 91, 97, 93, 32, 105>>)>>

(* C27: the bytes of one receive are decoded by themselves.  Of a frame   *)
(* that arrives in two receives (cut by the sender or the network, or at  *)
(* the 4096 bytes one receive takes) neither part makes the server relay  *)
(* anything, although the frame received at once would be relayed when it *)
(* fits in one receive.                                                    *)
C27_SplitFrameDropped ==
  (program = "codec" /\ arg.fn = "split" /\ res.done) =>
    /\ res.first = <<>>
    /\ res.second = <<>>
    /\ Len(SplitFrames[arg.frame]) <= SockBufferSize => res.whole # <<>>

(* C28: the registry of the chat server and that of the file monitor never *)
(* hold the same handle value twice, also when accept() hands out again a  *)
(* value that an earlier, closed connection had.                           *)
C28_NoDuplicateHandle ==
  \A i, j \in 1..Len(Reg) : Reg[i] = Reg[j] => i = j

\* A handle value is in use for the second time, next to another client.
C28_Witness ==
  /\ Len(Reg) >= 2
  /\ \E c, d \in ConnIds :
       /\ c < d
       /\ conns[c].fd = conns[d].fd
       /\ conns[c].closes = 1
       /\ InReg(d)

(* C29: when one receive returns two complete frames one after the other, *)
(* the server relays what it relays for the first frame alone; what it    *)
(* would relay for the second frame is put on no connection's wire, in    *)
(* that pass or later.                                                     *)
FirstFrame == SubSeq(TwoFrames, 1, 8)

SecondFrame == SubSeq(TwoFrames, 9, Len(TwoFrames))

\* What the server would relay for the second frame received alone.
SecondRelayed == Dispatched(SecondFrame)

C29_OnlyFirstFrame ==
  [][program = "chat" =>
       /\ \A a \in ConnIds :
            (RecvData(a) /\ conns[a].inq = TwoFrames) =>
              \A frames \in {Relayed(ParseWSFrame(FirstFrame))} :
                /\ frames # <<>>
                /\ \A c \in ConnIds :
                     Sent(c) = IF c # a /\ InReg(c) THEN frames ELSE <<>>
       /\ \A c \in DOMAIN wire' :
            \A sent \in {Sent(c)} :
              \A i \in 1..Len(sent) : sent[i].bytes # SecondRelayed]_vars

\* The two frames were received from one of two clients and the first was
\* relayed; the server is back in select() with nothing left to read.
C29_Witness ==
  /\ program = "chat"
  /\ pc = "select"
  /\ msgSeq = 1
  /\ SecondRelayed = <<129, 5, 91, 97, 93, 32, 106>>
  /\ \E a, c \in ConnIds :
       /\ a # c
       /\ conns[a].inq = <<>> /\ conns[c].inq = <<>>
       /\ InReg(a) /\ InReg(c)
       /\ wire[c][Len(wire[c])].bytes = Dispatched(FirstFrame)
       /\ wire[c][Len(wire[c])].bytes = <<129, 5, 91, 97, 93, 32, 105>>

(* C30: for a payload of at most 65535 bytes the bytes SendWsMessage hands *)
(* to send(), header then data, are the bytes of BuildWSFrame(payload,     *)
(* TEXT); and Base64Encode returns for every input what EncodeBase64       *)
(* returns for it.                                                         *)
C30_EncodersAgree ==
  /\ (program = "codec" /\ arg.fn = "send" /\ arg.kind = "file"
        /\ res.done /\ arg.n <= 65535) =>
       /\ res.payload_size = arg.n
       /\ res.as_built
  /\ (program = "codec" /\ arg.fn = "base64" /\ res.done) =>
       res.output = res.encoded

C30_Witness ==
  /\ program = "codec" /\ arg.fn = "send" /\ arg.kind = "file" /\ res.done
  /\ arg.n = 65535
  /\ res.head = <<129, 126, 255, 255>>
  /\ res.size = 65539
  /\ res.as_built

(* C31: every "[Server] ..." frame the chat server broadcasts carries one *)
(* line that the console step read from the operator's input, and that    *)
(* line is consumed by the step; at end of input no such frame is sent.   *)
CommandBroadcast(c) ==
  /\ pc = "stdin"
  /\ Sent(c) # <<>>
  /\ Sent(c)[1].bytes[1] = 128 + TEXT

C31_BroadcastPerLine ==
  [][program = "chat" =>
       \A c \in ConnIds :
         CommandBroadcast(c) =>
           /\ cin[1] # Eof
           /\ cin' = Tail(cin)
           /\ Sent(c) = <<Entry(msgSeq + 1, "frame",
                                BuildWSFrame(ServerMessage(cin[1]), TEXT))>>]_vars

(* C32: under fair scheduling of the chat server's loop, a connection in   *)
(* the registry whose peer has disconnected is eventually out of the       *)
(* registry with its handle closed, unless "/quit" has been typed or the   *)
(* server leaves its loop (select() failure), whatever the peers do.       *)
Disconnected(c) ==
  /\ program = "chat"
  /\ c \in ConnIds
  /\ InReg(c)
  /\ conns[c].gone

Removed(c) ==
  /\ c \in ConnIds
  /\ ~InReg(c)
  /\ conns[c].closes >= 1

LoopLeft == pc \in {"cleanup", "done"}

\* The operator has typed "/quit", read by the server or not yet.
ShutdownCommanded == \E i \in 1..Len(cin) : cin[i] = QuitCommand

C32_DisconnectedIsRemoved ==
  \A c \in 1..MaxEvents :
    Disconnected(c) ~> (Removed(c) \/ LoopLeft \/ ShutdownCommanded)
====
